---- MODULE Spec2Model ----
(***************************************************************************)
(* State-machine model of the business copilot: the Streamlit session      *)
(* (src/app.py), the ROMA orchestrator (src/agents/roma_orchestrator.py),  *)
(* the Dobby and OpenDeepSearch services (src/services) and the file       *)
(* backed StateManager (src/utils/state_manager.py).                       *)
(*                                                                         *)
(* Python str values are sequences of one-character strings, so that       *)
(* lower(), `in`, split() and strip() are computed and not assumed.        *)
(* Stage names, dict keys and exception class names are atomic strings.    *)
(***************************************************************************)
EXTENDS Naturals, Integers, Sequences, FiniteSets, TLC

VARIABLES
    current_stage,      \* st.session_state.current_stage
    business_plan,      \* st.session_state.business_plan (dict)
    chat_history,       \* st.session_state.chat_history (list of messages)
    execution_history,  \* ROMAOrchestrator.execution_history
    logged,             \* history variable: every entry log_task was given, in order
    req,                \* the last process_request call: arguments and outcome
    now,                \* the wall clock datetime.now() reads
    files,              \* data/business_plan_<plan_id>.json : plan_id -> JSON document
    chat_files,         \* data/chat_history_<plan_id>.json : plan_id -> JSON document
    store,              \* the last StateManager call: arguments and outcome, and the
                        \* number of calls made
    dobby,              \* the last DobbyService.generate_response call
    srch                \* the last OpenDeepSearchService.search call

vars == <<current_stage, business_plan, chat_history, execution_history, logged, req,
          now, files, chat_files, store, dobby, srch>>

sessionVars == <<current_stage, business_plan, chat_history>>
orchVars == <<execution_history, logged, req>>
storeVars == <<files, chat_files, store>>

-----------------------------------------------------------------------------
(* Python values *)

None == "<None>"
NL == "\n"

PyStr(s) == [t |-> "str", v |-> s]
PyBool(b) == [t |-> "bool", v |-> b]
PyInt(n) == [t |-> "int", v |-> n]
PyNone == [t |-> "NoneType", v |-> None]
PyList(xs) == [t |-> "list", v |-> xs]
PyDict(d) == [t |-> "dict", v |-> d]
\* a value json cannot serialise (a datetime, a set)
PyObject(name) == [t |-> "object", v |-> name]

\* a == b on two Python values
py_eq(a, b) == a.t = b.t /\ a.v = b.v

\* bool(x)
truthy(x) ==
    CASE x.t = "str" -> x.v # <<>>
      [] x.t = "bool" -> x.v
      [] x.t = "int" -> x.v # 0
      [] x.t = "list" -> x.v # <<>>
      [] x.t = "dict" -> DOMAIN x.v # {}
      [] x.t = "object" -> TRUE
      [] OTHER -> FALSE

\* dict.update / {**a, **b}: the keys of b win
dict_update(a, b) ==
    [k \in (DOMAIN a) \cup (DOMAIN b) |-> IF k \in DOMAIN b THEN b[k] ELSE a[k]]

\* dict.get(key, default)
dict_get(d, key, default) == IF key \in DOMAIN d THEN d[key] ELSE default

EmptyDict == [k \in {} |-> PyNone]
EmptyPyDict == PyDict(EmptyDict)

-----------------------------------------------------------------------------
(* str methods *)

UpperChars == <<"A", "B", "C", "D", "E", "F", "G", "H", "I", "J", "K", "L", "M",
                "N", "O", "P", "Q", "R", "S", "T", "U", "V", "W", "X", "Y", "Z">>
LowerChars == <<"a", "b", "c", "d", "e", "f", "g", "h", "i", "j", "k", "l", "m",
                "n", "o", "p", "q", "r", "s", "t", "u", "v", "w", "x", "y", "z">>
Whitespace == {" ", "\t", NL, "\r"}

lower_char(c) ==
    IF \E i \in 1..Len(UpperChars) : UpperChars[i] = c
    THEN LowerChars[CHOOSE i \in 1..Len(UpperChars) : UpperChars[i] = c]
    ELSE c

\* s.lower()
lower(s) == [i \in 1..Len(s) |-> lower_char(s[i])]

\* sub in s
contains(sub, s) ==
    \E i \in 0..(Len(s) - Len(sub)) : SubSeq(s, i + 1, i + Len(sub)) = sub

\* s.find(c) for a single character, 1-based; 0 when absent
find_char(c, s) ==
    IF \E i \in 1..Len(s) : s[i] = c
    THEN CHOOSE i \in 1..Len(s) : s[i] = c /\ \A j \in 1..(i - 1) : s[j] # c
    ELSE 0

RECURSIVE split_char(_, _)
\* s.split(c)
split_char(s, c) ==
    LET i == find_char(c, s)
    IN  IF i = 0 THEN <<s>>
        ELSE <<SubSeq(s, 1, i - 1)>> \o split_char(SubSeq(s, i + 1, Len(s)), c)

\* s.split(c, 1)
split_once(s, c) ==
    LET i == find_char(c, s)
    IN  IF i = 0 THEN <<s>>
        ELSE <<SubSeq(s, 1, i - 1), SubSeq(s, i + 1, Len(s))>>

RECURSIVE lstrip(_)
lstrip(s) == IF s # <<>> /\ Head(s) \in Whitespace THEN lstrip(Tail(s)) ELSE s

RECURSIVE rstrip(_)
rstrip(s) ==
    IF s # <<>> /\ s[Len(s)] \in Whitespace THEN rstrip(SubSeq(s, 1, Len(s) - 1)) ELSE s

\* s.strip()
strip(s) == rstrip(lstrip(s))

-----------------------------------------------------------------------------
(* The clock.  strftime("%H%M") sees the minute, strftime("%H%M%S") and      *)
(* isoformat() the second as well.                                          *)

next_second(t) ==
    IF t.second = 59 THEN [minute |-> t.minute + 1, second |-> 0]
    ELSE [minute |-> t.minute, second |-> t.second + 1]

next_minute(t) == [minute |-> t.minute + 1, second |-> 0]

Digits == <<"0", "1", "2", "3", "4", "5", "6", "7", "8", "9">>

\* "%02d"
fmt2(n) == <<Digits[((n \div 10) % 10) + 1], Digits[(n % 10) + 1]>>

\* datetime.isoformat(); the date and the hour are fixed
isoformat(t) == <<"2", "0", "2", "6", "-", "1", "1", "-", "0", "1", "T", "0", "0", ":">> \o fmt2(t.minute) \o <<":">> \o fmt2(t.second)

\* strftime('%Y%m%d_%H%M%S')
strftime_YmdHMS(t) == <<"2", "0", "2", "6", "1", "1", "0", "1", "_", "0", "0">> \o fmt2(t.minute) \o fmt2(t.second)

\* strftime("%m%d_%H%M")
strftime_mdHM(t) == <<"1", "1", "0", "1", "_", "0", "0">> \o fmt2(t.minute)

-----------------------------------------------------------------------------
(* ROMAOrchestrator *)

\* mutant: the last stage is misspelt
stages_typo == <<"idea", "research", "planning", "costing", "launched">>

stages == <<"idea", "research", "planning", "costing", "launch">>

progression_keywords ==
    [idea |-> << <<"s", "t", "a", "r", "t", " ", "r", "e", "s", "e", "a", "r", "c", "h">>, <<"m", "a", "r", "k", "e", "t", " ", "r", "e", "s", "e", "a", "r", "c", "h">>, <<"a", "n", "a", "l", "y", "z", "e", " ", "m", "a", "r", "k", "e", "t">> >>,
     research |-> << <<"c", "r", "e", "a", "t", "e", " ", "p", "l", "a", "n">>, <<"b", "u", "s", "i", "n", "e", "s", "s", " ", "p", "l", "a", "n">>, <<"d", "e", "v", "e", "l", "o", "p", " ", "s", "t", "r", "a", "t", "e", "g", "y">> >>,
     planning |-> << <<"c", "a", "l", "c", "u", "l", "a", "t", "e", " ", "c", "o", "s", "t", "s">>, <<"f", "i", "n", "a", "n", "c", "i", "a", "l">>, <<"b", "u", "d", "g", "e", "t">> >>,
     costing |-> << <<"l", "a", "u", "n", "c", "h">>, <<"r", "e", "g", "i", "s", "t", "e", "r">>, <<"s", "t", "a", "r", "t", " ", "b", "u", "s", "i", "n", "e", "s", "s">> >>]

ExecutionHistoryCap == 100

\* any(kw in text for kw in keywords)
any_keyword(keywords, text) == \E k \in 1..Len(keywords) : contains(keywords[k], text)

\* stages.index(stage), 0-based; -1 stands for ValueError
stages_index(stage) ==
    IF \E i \in 1..Len(stages) : stages[i] = stage
    THEN (CHOOSE i \in 1..Len(stages) : stages[i] = stage) - 1
    ELSE -1

\* mutant: the keywords of every stage are tried, and the stage after the last
\* one that matches is returned
_determine_next_stage_any(stage, user_input, answer) ==
    LET combined_text == lower(user_input \o <<" ">> \o answer)
        hits == {i \in 1..(Len(stages) - 1) :
                    any_keyword(progression_keywords[stages[i]], combined_text)}
    IN  IF hits = {} THEN stage
        ELSE stages[(CHOOSE i \in hits : \A j \in hits : i >= j) + 1]

\* mutant: the combined text is not lower-cased
_determine_next_stage_nolower(stage, user_input, answer) ==
    LET combined_text == user_input \o <<" ">> \o answer
        current_idx == stages_index(stage)
    IN  IF current_idx = -1 THEN stage
        ELSE IF /\ stage \in DOMAIN progression_keywords
                /\ any_keyword(progression_keywords[stage], combined_text)
                /\ current_idx < Len(stages) - 1
             THEN stages[(current_idx + 1) + 1]
             ELSE stage

_determine_next_stage(stage, user_input, answer) ==
    LET combined_text == lower(user_input \o <<" ">> \o answer)
        current_idx == stages_index(stage)
    IN  IF current_idx = -1 THEN stage   \* except ValueError: pass
        ELSE IF /\ stage \in DOMAIN progression_keywords
                /\ any_keyword(progression_keywords[stage], combined_text)
                /\ current_idx < Len(stages) - 1
             THEN stages[(current_idx + 1) + 1]
             ELSE stage

RECURSIVE extract_name(_, _)
\* the loop over answer.split('\n'): the last matching line wins
extract_name(lines, updates) ==
    IF lines = <<>> THEN updates
    ELSE LET line == Head(lines)
             parts == split_once(line, ":")
             hit == /\ \/ contains(<<"n", "a", "m", "e", ":">>, lower(line))
                          \/ contains(<<"b", "u", "s", "i", "n", "e", "s", "s", ":">>, lower(line))
                    /\ Len(parts) = 2
         IN  extract_name(Tail(lines),
                 IF hit
                 THEN dict_update(updates, [business_name |-> PyStr(strip(parts[2]))])
                 ELSE updates)

\* mutant: the flags are set from the keywords alone, whatever the stage
_extract_business_data_any_stage(answer, stage) ==
    LET answer_lower == lower(answer)
        u0 == IF \/ contains(<<"b", "u", "s", "i", "n", "e", "s", "s", " ", "n", "a", "m", "e">>, answer_lower)
                 \/ contains(<<"c", "o", "m", "p", "a", "n", "y", " ", "n", "a", "m", "e">>, answer_lower)
              THEN extract_name(split_char(answer, NL), EmptyDict)
              ELSE EmptyDict
        u1 == IF \/ contains(<<"m", "a", "r", "k", "e", "t">>, answer_lower)
                 \/ contains(<<"i", "n", "d", "u", "s", "t", "r", "y">>, answer_lower)
              THEN dict_update(u0, [has_market_research |-> PyBool(TRUE)]) ELSE u0
        u2 == IF \/ contains(<<"p", "l", "a", "n">>, answer_lower)
                 \/ contains(<<"s", "t", "r", "a", "t", "e", "g", "y">>, answer_lower)
              THEN dict_update(u1, [has_business_plan |-> PyBool(TRUE)]) ELSE u1
        u3 == IF \/ contains(<<"c", "o", "s", "t">>, answer_lower)
                 \/ contains(<<"$">>, answer)
              THEN dict_update(u2, [has_financial_projections |-> PyBool(TRUE)]) ELSE u2
        u4 == IF \/ contains(<<"l", "a", "u", "n", "c", "h">>, answer_lower)
                 \/ contains(<<"r", "e", "g", "i", "s", "t", "e", "r">>, answer_lower)
              THEN dict_update(u3, [has_launch_plan |-> PyBool(TRUE)]) ELSE u3
    IN  IF DOMAIN u4 # {} THEN PyDict(u4) ELSE PyNone

_extract_business_data(answer, stage) ==
    LET answer_lower == lower(answer)
        u0 == IF \/ contains(<<"b", "u", "s", "i", "n", "e", "s", "s", " ", "n", "a", "m", "e">>, answer_lower)
                 \/ contains(<<"c", "o", "m", "p", "a", "n", "y", " ", "n", "a", "m", "e">>, answer_lower)
              THEN extract_name(split_char(answer, NL), EmptyDict)
              ELSE EmptyDict
        u1 == IF /\ stage = "research"
                 /\ \/ contains(<<"m", "a", "r", "k", "e", "t">>, answer_lower)
                    \/ contains(<<"i", "n", "d", "u", "s", "t", "r", "y">>, answer_lower)
              THEN dict_update(u0, [has_market_research |-> PyBool(TRUE)]) ELSE u0
        u2 == IF /\ stage = "planning"
                 /\ \/ contains(<<"p", "l", "a", "n">>, answer_lower)
                    \/ contains(<<"s", "t", "r", "a", "t", "e", "g", "y">>, answer_lower)
              THEN dict_update(u1, [has_business_plan |-> PyBool(TRUE)]) ELSE u1
        u3 == IF /\ stage = "costing"
                 /\ \/ contains(<<"c", "o", "s", "t">>, answer_lower)
                    \/ contains(<<"$">>, answer)
              THEN dict_update(u2, [has_financial_projections |-> PyBool(TRUE)]) ELSE u2
        u4 == IF /\ stage = "launch"
                 /\ \/ contains(<<"l", "a", "u", "n", "c", "h">>, answer_lower)
                    \/ contains(<<"r", "e", "g", "i", "s", "t", "e", "r">>, answer_lower)
              THEN dict_update(u3, [has_launch_plan |-> PyBool(TRUE)]) ELSE u3
    IN  IF DOMAIN u4 # {} THEN PyDict(u4) ELSE PyNone

\* mutant: the slice keeps the first entries instead of the last
log_task_first(history, task_id, agent, task, stage, t) ==
    LET log_entry == [task_id |-> task_id, timestamp |-> isoformat(t), agent |-> agent,
                      task |-> task, stage |-> stage]
        appended == Append(history, log_entry)
    IN  IF Len(appended) > ExecutionHistoryCap
        THEN SubSeq(appended, 1, ExecutionHistoryCap)
        ELSE appended

log_task(history, task_id, agent, task, stage, t) ==
    LET log_entry == [task_id |-> task_id, timestamp |-> isoformat(t), agent |-> agent,
                      task |-> task, stage |-> stage]
        appended == Append(history, log_entry)
    IN  IF Len(appended) > ExecutionHistoryCap
        THEN SubSeq(appended, Len(appended) - ExecutionHistoryCap + 1, Len(appended))
        ELSE appended

\* the context parts _enrich_task_with_context joins: the stage block (by its
\* stage name) and the known plan fields
_enrich_task_with_context(user_input, stage, plan, history) ==
    LET stage_part == IF \E i \in 1..Len(stages) : stages[i] = stage
                      THEN <<[block |-> stage]>> ELSE <<>>
        field(key, label) == IF truthy(dict_get(plan, key, PyNone))
                             THEN <<[label |-> label, value |-> plan[key].v]>> ELSE <<>>
    IN  [context_parts |-> stage_part \o field("business_name", "Business")
                              \o field("industry", "Industry")
                              \o field("target_region", "Region"),
         user_input |-> user_input]

\* What RecursiveSolver.solve does with the task: it raises, or it returns an object
\* whose .result is None or a str, with str(object) = repr and task_id (or None).
NoException == [type |-> None, msg |-> <<>>]

\* the place of the result dictionary when the call returns none
NoResponse == [message |-> <<>>, business_plan_update |-> PyNone, next_stage |-> None,
               roma_execution_id |-> PyNone]

SolveRaises(exc) == [raises |-> TRUE, exc |-> exc]
SolveReturns(result, repr, task_id) ==
    [raises |-> FALSE, result |-> result, repr |-> repr, task_id |-> task_id]

\* mutant: the determined stage is reported even when it is the current one
response_next_stage_always(next_stage, stage) == next_stage

\* "next_stage": next_stage if next_stage != current_stage else None
response_next_stage(next_stage, stage) == IF next_stage # stage THEN next_stage ELSE None

\* mutant: solve is wrapped in try/except and an error dictionary is returned
_process_with_roma_catch(history, user_input, stage, plan, chat, solve, t) ==
    LET task_id == <<"t", "a", "s", "k", "_">> \o strftime_YmdHMS(t)
        history1 == log_task(history, task_id, "roma_solver", user_input, stage, t)
        enriched_task == _enrich_task_with_context(user_input, stage, plan, chat)
        answer == IF solve.raises THEN solve.exc.msg
                  ELSE IF solve.result.t # "NoneType" THEN solve.result.v
                  ELSE solve.repr
        next_stage == _determine_next_stage(stage, user_input, answer)
    IN  [execution_history |-> history1, raised |-> FALSE, exc |-> NoException,
         returned |-> TRUE,
         response |-> [message |-> answer,
                       business_plan_update |-> _extract_business_data(answer, stage),
                       next_stage |-> response_next_stage(next_stage, stage),
                       roma_execution_id |-> PyNone],
         determined |-> next_stage,
         solve_calls |-> 1, extract_calls |-> 1, determine_calls |-> 1,
         enriched_task |-> enriched_task]

\* _process_with_roma: the new execution history and the outcome of the call.  The
\* counters record which steps ran.
_process_with_roma(history, user_input, stage, plan, chat, solve, t) ==
    LET task_id == <<"t", "a", "s", "k", "_">> \o strftime_YmdHMS(t)
        history1 == log_task(history, task_id, "roma_solver", user_input, stage, t)
        enriched_task == _enrich_task_with_context(user_input, stage, plan, chat)
    IN  IF solve.raises
        THEN [execution_history |-> history1, raised |-> TRUE, exc |-> solve.exc,
              returned |-> FALSE, response |-> NoResponse, determined |-> None,
              solve_calls |-> 1,
              extract_calls |-> 0, determine_calls |-> 0,
              enriched_task |-> enriched_task]
        ELSE LET answer == IF solve.result.t # "NoneType" THEN solve.result.v
                           ELSE solve.repr
                 business_plan_update == _extract_business_data(answer, stage)
                 next_stage == _determine_next_stage(stage, user_input, answer)
             IN  [execution_history |-> history1, raised |-> FALSE, exc |-> NoException,
                  returned |-> TRUE,
                  response |-> [message |-> answer,
                                business_plan_update |->
                                    IF truthy(business_plan_update)
                                    THEN business_plan_update ELSE PyNone,
                                next_stage |-> response_next_stage(next_stage, stage),
                                roma_execution_id |-> solve.task_id],
                  determined |-> next_stage,
                  solve_calls |-> 1, extract_calls |-> 1, determine_calls |-> 1,
                  enriched_task |-> enriched_task]

\* mutant: the request is logged a second time
process_request_logs_twice(history, user_input, stage, plan, chat, solve, t) ==
    LET again(r) ==
            [r EXCEPT !.execution_history =
                 log_task(r.execution_history, <<"t", "a", "s", "k", "_">> \o strftime_YmdHMS(t),
                          "roma_solver", user_input, stage, t)]
    IN  again(_process_with_roma(history, user_input, stage, plan, chat, solve, t))

process_request(history, user_input, stage, plan, chat, solve, t) ==
    _process_with_roma(history, user_input, stage, plan, chat, solve, t)

\* get_roma_status: execution_count and last_execution
get_roma_status(history) ==
    [roma_enabled |-> TRUE,
     execution_count |-> Len(history),
     last_execution |-> IF history # <<>> THEN history[Len(history)] ELSE None]

-----------------------------------------------------------------------------
(* StateManager *)

\* c.isalnum() or c.isspace()
is_alnum(c) ==
    \/ \E i \in 1..Len(UpperChars) : UpperChars[i] = c
    \/ \E i \in 1..Len(LowerChars) : LowerChars[i] = c
    \/ \E i \in 1..Len(Digits) : Digits[i] = c

\* "".join(c.lower() for c in s if c.isalnum() or c.isspace())
clean_chars(s) ==
    LET keep(c) == is_alnum(c) \/ c \in Whitespace
    IN  lower(SelectSeq(s, keep))

RECURSIVE split_ws(_)
\* s.split(): the maximal runs of non-whitespace characters
split_ws(s) ==
    LET \* the length of the first word of t, which begins with a word
        word_len(t) == IF \E i \in 1..Len(t) : t[i] \in Whitespace
                       THEN (CHOOSE i \in 1..Len(t) :
                                /\ t[i] \in Whitespace
                                /\ \A j \in 1..(i - 1) : t[j] \notin Whitespace) - 1
                       ELSE Len(t)
        cut(t, n) == <<SubSeq(t, 1, n)>> \o split_ws(SubSeq(t, n + 1, Len(t)))
        words(t) == IF t = <<>> THEN <<>> ELSE cut(t, word_len(t))
    IN  words(lstrip(s))

RECURSIVE join(_, _)
\* sep.join(parts)
join(sep, parts) ==
    IF parts = <<>> THEN <<>>
    ELSE IF Len(parts) = 1 THEN parts[1]
    ELSE parts[1] \o sep \o join(sep, Tail(parts))

\* s[:n]
prefix(s, n) == SubSeq(s, 1, IF Len(s) < n THEN Len(s) ELSE n)

PlanIdNameLen == 20

\* the plan ID; raised when iterating the business name raises TypeError
generate_plan_id(plan, t) ==
    LET business_name == dict_get(plan, "business_name", PyStr(<<>>))
    IN  IF truthy(business_name)
        THEN IF business_name.t # "str" THEN [raised |-> TRUE, id |-> <<>>]
             ELSE LET clean_name == prefix(join(<<"_">>, split_ws(clean_chars(business_name.v))),
                                           PlanIdNameLen)
                  IN  [raised |-> FALSE, id |-> clean_name \o <<"_">> \o strftime_mdHM(t)]
        ELSE [raised |-> FALSE, id |-> <<"p", "l", "a", "n", "_">> \o strftime_YmdHMS(t)]

RECURSIVE json_ok(_)
\* json.dump accepts the value
json_ok(x) ==
    CASE x.t \in {"str", "bool", "int", "NoneType"} -> TRUE
      [] x.t = "list" -> \A i \in 1..Len(x.v) : json_ok(x.v[i])
      [] x.t = "dict" -> \A k \in DOMAIN x.v : json_ok(x.v[k])
      [] OTHER -> FALSE

RECURSIVE json_dump(_)
\* the JSON text json.dump writes, as a JSON value
json_dump(x) ==
    CASE x.t = "str" -> [j |-> "string", v |-> x.v]
      [] x.t = "bool" -> [j |-> IF x.v THEN "true" ELSE "false", v |-> None]
      [] x.t = "int" -> [j |-> "number", v |-> x.v]
      [] x.t = "NoneType" -> [j |-> "null", v |-> None]
      [] x.t = "list" -> [j |-> "array", v |-> [i \in 1..Len(x.v) |-> json_dump(x.v[i])]]
      [] x.t = "dict" -> [j |-> "object", v |-> [k \in DOMAIN x.v |-> json_dump(x.v[k])]]

RECURSIVE json_load(_)
\* the Python value json.load builds from a JSON value
json_load(y) ==
    CASE y.j = "string" -> PyStr(y.v)
      [] y.j = "true" -> PyBool(TRUE)
      [] y.j = "false" -> PyBool(FALSE)
      [] y.j = "number" -> PyInt(y.v)
      [] y.j = "null" -> PyNone
      [] y.j = "array" -> PyList([i \in 1..Len(y.v) |-> json_load(y.v[i])])
      [] y.j = "object" -> PyDict([k \in DOMAIN y.v |-> json_load(y.v[k])])

\* a file open(path, 'w') truncated and json.dump left unfinished
Corrupt == [j |-> "corrupt", v |-> None]

NoFiles == [id \in {} |-> Corrupt]

\* mutant: the metadata is spread after the plan, so it overrides the plan's keys
with_metadata_last(plan, id, t) ==
    dict_update(plan,
        [plan_id |-> PyStr(id),
         created_at |-> dict_get(plan, "created_at", PyStr(isoformat(t))),
         last_updated |-> PyStr(isoformat(t)),
         version |-> dict_get(plan, "version", PyInt(1))])

\* business_plan_with_metadata: the plan's own keys override the metadata
with_metadata(plan, id, t) ==
    dict_update(
        [plan_id |-> PyStr(id),
         created_at |-> dict_get(plan, "created_at", PyStr(isoformat(t))),
         last_updated |-> PyStr(isoformat(t)),
         version |-> dict_get(plan, "version", PyInt(1))],
        plan)

\* save_business_plan: the files afterwards and the returned value ("" on failure).
\* plan_id is a PyStr or PyNone; io is what open() does: "ok" or "OSError".
save_business_plan(fs, plan, plan_id, t, io) ==
    LET gen == generate_plan_id(plan, t)
        id == IF truthy(plan_id) THEN plan_id.v ELSE gen.id
    IN  IF ~truthy(plan_id) /\ gen.raised THEN [files |-> fs, ret |-> <<>>]
        ELSE
        LET doc == PyDict(with_metadata(plan, id, t))
        IN  IF io # "ok" THEN [files |-> fs, ret |-> <<>>]
            ELSE IF ~json_ok(doc)
                 THEN [files |-> dict_update(fs, [k \in {id} |-> Corrupt]), ret |-> <<>>]
                 ELSE [files |-> dict_update(fs, [k \in {id} |-> json_dump(doc)]),
                       ret |-> id]

\* load_business_plan: the dict read, or PyNone
load_business_plan(fs, plan_id) ==
    IF plan_id \notin DOMAIN fs THEN PyNone
    ELSE IF fs[plan_id].j = "corrupt" THEN PyNone   \* json.load raises, caught
    ELSE json_load(fs[plan_id])

DefaultPlanId == <<"d", "e", "f", "a", "u", "l", "t">>

\* save_chat_history: the chat files afterwards and the returned flag
save_chat_history(cfs, history, plan_id, t, io) ==
    LET id == IF truthy(plan_id) THEN plan_id.v ELSE DefaultPlanId
        chat_data == [plan_id |-> id, saved_at |-> isoformat(t),
                      message_count |-> Len(history), chat_history |-> history]
    IN  IF io # "ok" THEN [files |-> cfs, ret |-> FALSE]
        ELSE [files |-> dict_update(cfs, [k \in {id} |-> chat_data]), ret |-> TRUE]

\* load_chat_history
load_chat_history(cfs, plan_id) ==
    IF plan_id \notin DOMAIN cfs THEN <<>> ELSE cfs[plan_id].chat_history

-----------------------------------------------------------------------------
(* OpenDeepSearchService *)

\* A step that may raise: the value it returns, or the exception it raises
Returned(value) == [raised |-> FALSE, exc |-> NoException, value |-> value]
Raised(type, msg) == [raised |-> TRUE, exc |-> [type |-> type, msg |-> msg], value |-> None]

RECURSIVE int_str(_)
\* str(n) for n >= 0
int_str(n) == IF n < 10 THEN <<Digits[n + 1]>> ELSE int_str(n \div 10) \o <<Digits[(n % 10) + 1]>>

\* f"{x}"
py_str(x) ==
    CASE x.t = "str" -> x.v
      [] x.t = "int" -> int_str(x.v)
      [] x.t = "bool" -> IF x.v THEN <<"T", "r", "u", "e">> ELSE <<"F", "a", "l", "s", "e">>
      [] OTHER -> <<"N", "o", "n", "e">>

\* a float, kept as the fraction num / den
Frac(num, den) == [num |-> num, den |-> den]
frac_ge(a, b) == a.num * b.den >= b.num * a.den
frac_eq(a, b) == a.num * b.den = b.num * a.den

\* set(s.split())
word_set(s) == LET elements(ws) == {ws[i] : i \in 1..Len(ws)} IN elements(split_ws(s))

\* the words ['business', 'startup', 'company', 'market'] and
\* ['in', 'location', 'city', 'country'] of rephrase_query
BusinessWords == << <<"b", "u", "s", "i", "n", "e", "s", "s">>, <<"s", "t", "a", "r", "t", "u", "p">>, <<"c", "o", "m", "p", "a", "n", "y">>, <<"m", "a", "r", "k", "e", "t">> >>
LocationWords == << <<"i", "n">>, <<"l", "o", "c", "a", "t", "i", "o", "n">>, <<"c", "i", "t", "y">>, <<"c", "o", "u", "n", "t", "r", "y">> >>

MaxVariants == 3
SearchVariantLimit == 3
SnippetLen == 200

\* s[:n] for any integer n
slice_to(s, n) ==
    IF n >= 0 THEN SubSeq(s, 1, IF n < Len(s) THEN n ELSE Len(s))
    ELSE SubSeq(s, 1, IF Len(s) + n > 0 THEN Len(s) + n ELSE 0)

\* mutant: the variants come before the query itself
rephrase_query_variants_first(query) ==
    IF query.t # "str" THEN Raised("AttributeError", <<"n", "o", " ", "a", "t", "t", "r", "i", "b", "u", "t", "e", " ", "'", "l", "o", "w", "e", "r", "'">>)
    ELSE LET q == query.v
             temporal(queries) ==
                 IF any_keyword(BusinessWords, lower(q))
                 THEN queries \o << PyStr(q \o <<" ", "2", "0", "2", "4", " ", "t", "r", "e", "n", "d", "s">>),
                                    PyStr(q \o <<" ", "l", "a", "t", "e", "s", "t", " ", "s", "t", "a", "t", "i", "s", "t", "i", "c", "s">>) >>
                 ELSE queries
             located(queries) ==
                 IF ~any_keyword(LocationWords, lower(q))
                 THEN Append(queries, PyStr(q \o <<" ", "r", "e", "q", "u", "i", "r", "e", "m", "e", "n", "t", "s">>))
                 ELSE queries
         IN  Returned(slice_to(Append(located(temporal(<< >>)), query), MaxVariants))

\* rephrase_query; query.lower() raises when the query is no str
rephrase_query(query) ==
    IF query.t # "str" THEN Raised("AttributeError", <<"n", "o", " ", "a", "t", "t", "r", "i", "b", "u", "t", "e", " ", "'", "l", "o", "w", "e", "r", "'">>)
    ELSE LET q == query.v
             temporal(queries) ==
                 IF any_keyword(BusinessWords, lower(q))
                 THEN queries \o << PyStr(q \o <<" ", "2", "0", "2", "4", " ", "t", "r", "e", "n", "d", "s">>),
                                    PyStr(q \o <<" ", "l", "a", "t", "e", "s", "t", " ", "s", "t", "a", "t", "i", "s", "t", "i", "c", "s">>) >>
                 ELSE queries
             located(queries) ==
                 IF ~any_keyword(LocationWords, lower(q))
                 THEN Append(queries, PyStr(q \o <<" ", "r", "e", "q", "u", "i", "r", "e", "m", "e", "n", "t", "s">>))
                 ELSE queries
         IN  Returned(slice_to(located(temporal(<< query >>)), MaxVariants))

\* the mock result serper_search returns when the request fails
placeholder(query) ==
    [title |-> PyStr(<<"S", "e", "a", "r", "c", "h", " ", "r", "e", "s", "u", "l", "t", " ", "f", "o", "r", ":", " ">> \o py_str(query)),
     snippet |-> PyStr(<<"I", "n", "f", "o", "r", "m", "a", "t", "i", "o", "n", " ", "a", "b", "o", "u", "t", " ">> \o py_str(query)
                       \o <<" ", "-", " ", "s", "e", "a", "r", "c", "h", " ", "s", "e", "r", "v", "i", "c", "e", " ", "t", "e", "m", "p", "o", "r", "a", "r", "i", "l", "y", " ", "u", "n", "a", "v", "a", "i", "l", "a", "b", "l", "e">>),
     link |-> PyStr(<<"h", "t", "t", "p", "s", ":", "/", "/", "e", "x", "a", "m", "p", "l", "e", ".", "c", "o", "m">>)]

\* What the provider call does: requests.post or raise_for_status raises a
\* RequestException ("RequestException"), something else is raised ("Exception"),
\* or response.json() returns a body ("json").
HttpRaises(kind) == [kind |-> kind, body |-> PyNone]
HttpJson(body) == [kind |-> "json", body |-> body]

\* mutant: serper_search has no except clause
serper_search_uncaught(query, num_results, http) ==
    CASE http.kind = "json" -> Returned(http.body)
      [] http.kind = "RequestException" -> Raised("ConnectionError", <<"c", "o", "n", "n", "e", "c", "t", "i", "o", "n", " ", "f", "a", "i", "l", "e", "d">>)
      [] OTHER -> Raised("ValueError", <<"b", "a", "d", " ", "r", "e", "s", "p", "o", "n", "s", "e">>)

\* serper_search: the body returned, or the exception that escapes
serper_search(query, num_results, http) ==
    CASE http.kind = "json" -> Returned(http.body)
      [] http.kind = "RequestException" ->
            Returned(PyDict([organic |-> PyList(<<PyDict(placeholder(query))>>)]))
      [] OTHER -> Raised("ValueError", <<"b", "a", "d", " ", "r", "e", "s", "p", "o", "n", "s", "e">>)

RECURSIVE format_loop(_, _)
format_loop(items, formatted) ==
    IF items = <<>> THEN Returned(formatted)
    ELSE LET result == Head(items)
         IN  IF result.t # "dict" THEN Raised("AttributeError", <<"n", "o", " ", "a", "t", "t", "r", "i", "b", "u", "t", "e", " ", "'", "g", "e", "t", "'">>)
             ELSE format_loop(Tail(items),
                      Append(formatted,
                          [title |-> dict_get(result.v, "title", PyStr(<<>>)),
                           snippet |-> dict_get(result.v, "snippet", PyStr(<<>>)),
                           url |-> dict_get(result.v, "link", PyStr(<<>>)),
                           relevance_score |-> Frac(1, 1)]))

\* format_search_results({"organic": items}, query)
format_search_results(items, query) == format_loop(items, <<>>)

\* mutant: the overlap is divided by the number of words of the text
calculate_text_relevance_of_text(query, text) ==
    IF ~truthy(text) THEN Returned(Frac(0, 1))
    ELSE IF query.t # "str" \/ text.t # "str"
         THEN Raised("AttributeError", <<"n", "o", " ", "a", "t", "t", "r", "i", "b", "u", "t", "e", " ", "'", "l", "o", "w", "e", "r", "'">>)
    ELSE LET ratio(query_words, text_words) ==
                 LET overlap == Cardinality(query_words \cap text_words)
                     total_text_words == Cardinality(text_words)
                 IN  IF total_text_words = 0 THEN Returned(Frac(0, 1))
                     ELSE Returned(Frac(overlap, total_text_words))
         IN  ratio(word_set(lower(query.v)), word_set(lower(text.v)))

\* calculate_text_relevance: overlap / total_query_words as a fraction
calculate_text_relevance(query, text) ==
    IF ~truthy(text) THEN Returned(Frac(0, 1))
    ELSE IF query.t # "str" \/ text.t # "str"
         THEN Raised("AttributeError", <<"n", "o", " ", "a", "t", "t", "r", "i", "b", "u", "t", "e", " ", "'", "l", "o", "w", "e", "r", "'">>)
    ELSE LET ratio(query_words, text_words) ==
                 LET overlap == Cardinality(query_words \cap text_words)
                     total_query_words == Cardinality(query_words)
                 IN  IF total_query_words = 0 THEN Returned(Frac(0, 1))
                     ELSE Returned(Frac(overlap, total_query_words))
         IN  ratio(word_set(lower(query.v)), word_set(lower(text.v)))

RECURSIVE insert_desc(_, _)
\* x is placed after every element whose score is >= its own
insert_desc(sorted, x) ==
    IF sorted = <<>> THEN <<x>>
    ELSE IF frac_ge(Head(sorted).relevance_score, x.relevance_score)
         THEN <<Head(sorted)>> \o insert_desc(Tail(sorted), x)
         ELSE <<x>> \o sorted

\* mutant: reverse=True is left out, the lowest score comes first
sort_by_score_ascending(results) ==
    LET RECURSIVE insert_asc(_, _)
        insert_asc(sorted, x) ==
            IF sorted = <<>> THEN <<x>>
            ELSE IF frac_ge(x.relevance_score, Head(sorted).relevance_score)
                 THEN <<Head(sorted)>> \o insert_asc(Tail(sorted), x)
                 ELSE <<x>> \o sorted
        RECURSIVE sort_asc(_)
        sort_asc(rs) ==
            IF rs = <<>> THEN <<>>
            ELSE insert_asc(sort_asc(SubSeq(rs, 1, Len(rs) - 1)), rs[Len(rs)])
    IN  sort_asc(results)

RECURSIVE sort_by_score(_)
\* sorted(results, key=relevance_score, reverse=True): stable
sort_by_score(results) ==
    IF results = <<>> THEN <<>>
    ELSE insert_desc(sort_by_score(SubSeq(results, 1, Len(results) - 1)),
                     results[Len(results)])

RECURSIVE score_loop(_, _, _)
\* the scoring loop of apply_semantic_ranking: the list as the loop left it, and
\* whether it raised
score_loop(query, results, i) ==
    IF i > Len(results) THEN [raised |-> FALSE, results |-> results]
    ELSE LET \* (title_score * 0.6) + (snippet_score * 0.4)
             weighted(t, s) == Frac(6 * t.num * s.den + 4 * s.num * t.den,
                                    10 * t.den * s.den)
             scored(title_score, snippet_score) ==
                 IF title_score.raised \/ snippet_score.raised
                 THEN [raised |-> TRUE, results |-> results]
                 ELSE score_loop(query,
                          [results EXCEPT ![i].relevance_score =
                               weighted(title_score.value, snippet_score.value)],
                          i + 1)
         IN  scored(calculate_text_relevance(query, results[i].title),
                    calculate_text_relevance(query, results[i].snippet))

\* apply_semantic_ranking: an exception leaves the list in the order it had
apply_semantic_ranking(query, results) ==
    LET ranked(scored) ==
            IF scored.raised THEN scored.results ELSE sort_by_score(scored.results)
    IN  ranked(score_loop(query, results, 1))

\* What the reranker call does: requests.post raises ("Exception"), or it answers
\* with a status code and, through response.json(), a body
JinaAnswer(code, body) == [kind |-> "answer", code |-> code, body |-> body]

RECURSIVE rerank_loop_first_result(_, _, _)
\* mutant: the index of the item is not used, the first result is taken
rerank_loop_first_result(items, results, reranked) ==
    IF items = <<>> THEN Returned(reranked)
    ELSE LET item == Head(items)
         IN  IF item.t # "dict" THEN Raised("AttributeError", <<"n", "o", " ", "a", "t", "t", "r", "i", "b", "u", "t", "e", " ", "'", "g", "e", "t", "'">>)
             ELSE LET idx == dict_get(item.v, "index", PyInt(0)).v
                      score == dict_get(item.v, "relevance_score", Frac(0, 1))
                  IN  IF idx < Len(results)
                      THEN IF idx < -Len(results)
                           THEN Raised("IndexError", <<"l", "i", "s", "t", " ", "i", "n", "d", "e", "x", " ", "o", "u", "t", " ", "o", "f", " ", "r", "a", "n", "g", "e">>)
                           ELSE rerank_loop_first_result(Tail(items), results,
                                    Append(reranked,
                                        [results[1] EXCEPT !.relevance_score = score]))
                      ELSE rerank_loop_first_result(Tail(items), results, reranked)

RECURSIVE rerank_loop(_, _, _)
\* the loop over rerank_data["results"]
rerank_loop(items, results, reranked) ==
    IF items = <<>> THEN Returned(reranked)
    ELSE LET item == Head(items)
         IN  IF item.t # "dict" THEN Raised("AttributeError", <<"n", "o", " ", "a", "t", "t", "r", "i", "b", "u", "t", "e", " ", "'", "g", "e", "t", "'">>)
             ELSE LET idx == dict_get(item.v, "index", PyInt(0)).v
                      score == dict_get(item.v, "relevance_score", Frac(0, 1))
                  IN  IF idx < Len(results)
                      THEN IF idx < -Len(results)
                           THEN Raised("IndexError", <<"l", "i", "s", "t", " ", "i", "n", "d", "e", "x", " ", "o", "u", "t", " ", "o", "f", " ", "r", "a", "n", "g", "e">>)
                           ELSE LET at == IF idx >= 0 THEN idx + 1
                                          ELSE Len(results) + idx + 1
                                IN  rerank_loop(Tail(items), results,
                                        Append(reranked,
                                            [results[at] EXCEPT !.relevance_score = score]))
                      ELSE rerank_loop(Tail(items), results, reranked)

\* mutant: the reranker is called without looking at jina_api_key
apply_jina_reranking_keyless(query, results, jina_api_key, jina) ==
    LET reranked ==
            IF jina.kind # "answer" THEN Raised("Exception", <<>>)
            ELSE IF jina.code # 200 THEN Raised("status", <<>>)
            ELSE IF jina.body.t # "dict" THEN Raised("TypeError", <<>>)
            ELSE IF "results" \notin DOMAIN jina.body.v THEN Raised("no results", <<>>)
            ELSE rerank_loop(jina.body.v["results"].v, results, <<>>)
        ranked(looped) ==
            IF looped.raised
            THEN [results |-> apply_semantic_ranking(query, results),
                  jina_calls |-> 1, ranking |-> "local"]
            ELSE [results |-> sort_by_score(looped.value), jina_calls |-> 1,
                  ranking |-> "jina"]
    IN  ranked(reranked)

\* apply_jina_reranking: the ranking, whether the reranker was called, and whether
\* the ranking is the reranker's ("jina") or the local one ("local")
apply_jina_reranking(query, results, jina_api_key, jina) ==
    LET jina_calls == IF jina_api_key = <<>> THEN 0 ELSE 1
        \* the list the try block returns, or what sends the call to the fallback
        reranked ==
            IF jina_api_key = <<>> THEN Raised("no key", <<>>)
            ELSE IF jina.kind # "answer" THEN Raised("Exception", <<>>)
            ELSE IF jina.code # 200 THEN Raised("status", <<>>)
            ELSE IF jina.body.t # "dict" THEN Raised("TypeError", <<>>)
            ELSE IF "results" \notin DOMAIN jina.body.v THEN Raised("no results", <<>>)
            ELSE rerank_loop(jina.body.v["results"].v, results, <<>>)
        ranked(looped) ==
            IF looped.raised
            THEN [results |-> apply_semantic_ranking(query, results),
                  jina_calls |-> jina_calls, ranking |-> "local"]
            ELSE [results |-> sort_by_score(looped.value), jina_calls |-> jina_calls,
                  ranking |-> "jina"]
    IN  ranked(reranked)

SynthesisTop == 3

RECURSIVE synth_items(_, _, _)
\* the loop that writes "{i}. {title}" and the snippet of each result
synth_items(results, i, text) ==
    IF i > Len(results) THEN Returned(text)
    ELSE LET title == results[i].title
             snippet == results[i].snippet
         IN  IF ~truthy(snippet) THEN synth_items(results, i + 1, text)
             ELSE IF snippet.t # "str"
                  THEN Raised("TypeError", <<"o", "b", "j", "e", "c", "t", " ", "i", "s", " ", "n", "o", "t", " ", "s", "u", "b", "s", "c", "r", "i", "p", "t", "a", "b", "l", "e">>)
             ELSE synth_items(results, i + 1,
                      text \o int_str(i) \o <<".", " ">> \o py_str(title) \o <<NL>>
                           \o <<" ", " ", " ">> \o prefix(snippet.v, SnippetLen) \o <<".", ".", ".">>
                           \o <<NL, NL>>)

RECURSIVE synth_sources(_, _, _)
\* the loop that writes "- {title}: {url}"
synth_sources(results, i, text) ==
    IF i > Len(results) THEN text
    ELSE synth_sources(results, i + 1,
             IF truthy(results[i].url)
             THEN text \o <<"-", " ">> \o py_str(results[i].title) \o <<":", " ">>
                       \o py_str(results[i].url) \o <<NL>>
             ELSE text)

synthesize_answer(query, results) ==
    IF results = <<>>
    THEN Returned(<<"N", "o", " ", "r", "e", "l", "e", "v", "a", "n", "t", " ", "i", "n", "f", "o", "r", "m", "a", "t", "i", "o", "n", " ", "f", "o", "u", "n", "d", " ", "f", "o", "r", ":", " ">> \o py_str(query))
    ELSE LET with_sources(top, items) ==
                 IF items.raised THEN items
                 ELSE Returned(synth_sources(top, 1, items.value \o <<"S", "o", "u", "r", "c", "e", "s", ":">> \o <<NL>>))
             with_items(top) ==
                 with_sources(top,
                     synth_items(top, 1,
                         <<"B", "a", "s", "e", "d", " ", "o", "n", " ", "c", "u", "r", "r", "e", "n", "t", " ", "i", "n", "f", "o", "r", "m", "a", "t", "i", "o", "n", " ", "r", "e", "g", "a", "r", "d", "i", "n", "g", " ", "'">> \o py_str(query)
                             \o <<"'", ":">> \o <<NL, NL>>))
         IN  with_items(slice_to(results, SynthesisTop))

RECURSIVE search_loop(_, _, _, _, _)
\* the loop over the query variants: the merged organic results and the calls made
search_loop(queries, num_results, http, i, all_results) ==
    IF i > Len(queries)
    THEN [raised |-> FALSE, exc |-> NoException, value |-> all_results,
          serper_calls |-> i - 1, serper_queries |-> SubSeq(queries, 1, i - 1)]
    ELSE LET extend(organic) ==
                 search_loop(queries, num_results, http, i + 1,
                     IF truthy(organic) THEN all_results \o organic.v ELSE all_results)
             merged(search_results) ==
                 IF search_results.raised
                 THEN [raised |-> TRUE, exc |-> search_results.exc, value |-> all_results,
                       serper_calls |-> i, serper_queries |-> SubSeq(queries, 1, i)]
                 ELSE IF search_results.value.t # "dict"
                 THEN [raised |-> TRUE,
                       exc |-> [type |-> "AttributeError", msg |-> <<"n", "o", " ", "a", "t", "t", "r", "i", "b", "u", "t", "e", " ", "'", "g", "e", "t", "'">>],
                       value |-> all_results, serper_calls |-> i,
                       serper_queries |-> SubSeq(queries, 1, i)]
                 ELSE extend(dict_get(search_results.value.v, "organic", PyNone))
         IN  merged(serper_search(queries[i], num_results, http[i]))

\* the outcome of a search call that raised nothing: the dictionary returned
SearchDone(ret, serper_calls, jina_calls, ranking) ==
    [raised |-> FALSE, caught |-> FALSE, exc |-> NoException, ret |-> ret,
     serper_calls |-> serper_calls, serper_queries |-> <<>>,
     jina_calls |-> jina_calls, ranking |-> ranking,
     was_ranked |-> FALSE, candidates |-> <<>>, ranked |-> <<>>]
\* the outcome of a step of search that raised
SearchRaised(exc, serper_calls, jina_calls) ==
    [raised |-> TRUE, caught |-> FALSE, exc |-> exc, ret |-> EmptyDict,
     serper_calls |-> serper_calls, serper_queries |-> <<>>,
     jina_calls |-> jina_calls, ranking |-> "none",
     was_ranked |-> FALSE, candidates |-> <<>>, ranked |-> <<>>]

\* the body of the try block of search, step by step
search_try(query, num_results, deep_mode, http, jina_api_key, jina) ==
    LET \* the dictionary returned at the end
        answered(search_queries, looped, ranked, sources, synthesized_answer) ==
            IF synthesized_answer.raised
            THEN SearchRaised(synthesized_answer.exc, looped.serper_calls,
                              ranked.jina_calls)
            ELSE SearchDone([query |-> query,
                             original_query |-> query,
                             rephrased_queries |-> IF deep_mode THEN search_queries
                                                   ELSE <<query>>,
                             results |-> synthesized_answer.value,
                             sources |-> sources,
                             total_found |-> Len(looped.value),
                             deep_mode |-> deep_mode],
                            looped.serper_calls, ranked.jina_calls, ranked.ranking)
        \* Step 5: synthesize_answer(query, reranked_results[:num_results])
        synthesized(search_queries, looped, ranked, sources) ==
            answered(search_queries, looped, ranked, sources,
                     synthesize_answer(query, sources))
        sliced(search_queries, looped, ranked) ==
            synthesized(search_queries, looped, ranked,
                        slice_to(ranked.results, num_results))
        \* the list given to the ranking step and the list it returned are kept
        \* with the outcome
        after_ranking(search_queries, looped, candidates, ranked) ==
            [sliced(search_queries, looped, ranked)
                EXCEPT !.was_ranked = TRUE, !.candidates = candidates,
                       !.ranked = ranked.results]
        \* Step 4: the reranker in deep mode with more than one result
        reranked(search_queries, looped, formatted) ==
            IF formatted.raised
            THEN SearchRaised(formatted.exc, looped.serper_calls, 0)
            ELSE after_ranking(search_queries, looped, formatted.value,
                     IF deep_mode /\ Len(formatted.value) > 1
                     THEN apply_jina_reranking(query, formatted.value, jina_api_key, jina)
                     ELSE [results |-> apply_semantic_ranking(query, formatted.value),
                           jina_calls |-> 0, ranking |-> "local"])
        \* Step 3: format_search_results, unless nothing was found
        formatted_results(search_queries, looped) ==
            IF looped.raised THEN SearchRaised(looped.exc, looped.serper_calls, 0)
            ELSE IF looped.value = <<>>
            THEN SearchDone([query |-> query,
                             results |-> <<"N", "o", " ", "s", "e", "a", "r", "c", "h", " ", "r", "e", "s", "u", "l", "t", "s", " ", "f", "o", "u", "n", "d">>,
                             error |-> <<"N", "o", " ", "o", "r", "g", "a", "n", "i", "c", " ", "r", "e", "s", "u", "l", "t", "s", " ", "f", "r", "o", "m", " ", "s", "e", "a", "r", "c", "h", " ", "p", "r", "o", "v", "i", "d", "e", "r">>],
                            looped.serper_calls, 0, "none")
            ELSE reranked(search_queries, looped,
                          format_search_results(looped.value, query))
        \* Step 2: one provider call for each of the first three variants
        \* the queries the provider was called with are kept with the outcome
        after_loop(search_queries, looped) ==
            [formatted_results(search_queries, looped)
                EXCEPT !.serper_queries = looped.serper_queries]
        searched(rephrased) ==
            IF rephrased.raised THEN SearchRaised(rephrased.exc, 0, 0)
            ELSE after_loop(rephrased.value,
                     search_loop(slice_to(rephrased.value, SearchVariantLimit),
                                 num_results, http, 1, <<>>))
    \* Step 1: rephrase_query in deep mode
    IN  searched(IF deep_mode THEN rephrase_query(query) ELSE Returned(<<query>>))

\* mutant: search has no except clause
search_uncaught(query, num_results, deep_mode, http, jina_api_key, jina) ==
    search_try(query, num_results, deep_mode, http, jina_api_key, jina)

\* search: except Exception as e turns whatever the try block raised into a result
search(query, num_results, deep_mode, http, jina_api_key, jina) ==
    LET except(tried) ==
            IF tried.raised
            THEN [SearchDone([query |-> query,
                              results |-> <<"S", "e", "a", "r", "c", "h", " ", "s", "e", "r", "v", "i", "c", "e", " ", "t", "e", "m", "p", "o", "r", "a", "r", "i", "l", "y", " ", "u", "n", "a", "v", "a", "i", "l", "a", "b", "l", "e", ".", " ", "E", "r", "r", "o", "r", ":", " ">>
                                              \o tried.exc.msg,
                              error |-> tried.exc.msg],
                             tried.serper_calls, tried.jina_calls, "none")
                     EXCEPT !.caught = TRUE, !.serper_queries = tried.serper_queries,
                            !.was_ranked = tried.was_ranked,
                            !.candidates = tried.candidates, !.ranked = tried.ranked]
            ELSE tried
    IN  except(search_try(query, num_results, deep_mode, http, jina_api_key, jina))
-----------------------------------------------------------------------------
(* DobbyService *)

\* \w
is_word(c) == is_alnum(c) \/ c = "_"

\* The patterns of _sanitize_response, in the order of the dictionary.  A pattern
\* r'\bX[*y]REST\w*\b' is [first |-> X, second |-> y, rest |-> REST, tail |-> TRUE];
\* one that ends r'REST\b' has tail |-> FALSE.
replacements ==
    << [first |-> "f", second |-> "u", rest |-> <<"c", "k">>, tail |-> TRUE, to |-> <<"v", "e", "r", "y">>],
       [first |-> "s", second |-> "h", rest |-> <<"i", "t">>, tail |-> TRUE, to |-> <<"i", "s", "s", "u", "e", "s">>],
       [first |-> "d", second |-> "a", rest |-> <<"m", "n">>, tail |-> TRUE, to |-> <<"v", "e", "r", "y">>],
       [first |-> "h", second |-> "e", rest |-> <<"l", "l">>, tail |-> FALSE, to |-> <<"d", "i", "f", "f", "i", "c", "u", "l", "t", "y">>],
       [first |-> "a", second |-> "s", rest |-> <<"s">>, tail |-> FALSE, to |-> <<>>],
       [first |-> "a", second |-> "s", rest |-> <<"s", "h", "o", "l", "e">>, tail |-> TRUE, to |-> <<"p", "e", "r", "s", "o", "n">>],
       [first |-> "b", second |-> "i", rest |-> <<"t", "c", "h">>, tail |-> TRUE, to |-> <<"c", "o", "m", "p", "l", "a", "i", "n", "t">>],
       [first |-> "c", second |-> "r", rest |-> <<"a", "p">>, tail |-> TRUE, to |-> <<"i", "s", "s", "u", "e", "s">>],
       [first |-> "b", second |-> "a", rest |-> <<"s", "t", "a", "r", "d">>, tail |-> TRUE, to |-> <<"p", "e", "r", "s", "o", "n">>],
       [first |-> "d", second |-> "i", rest |-> <<"c", "k">>, tail |-> TRUE, to |-> <<"p", "e", "r", "s", "o", "n">>],
       [first |-> "p", second |-> "i", rest |-> <<"s", "s">>, tail |-> TRUE, to |-> <<"u", "p", "s", "e", "t">>] >>

RECURSIVE word_run(_, _)
\* the number of \w characters of s from position i on
word_run(s, i) == IF i <= Len(s) /\ is_word(s[i]) THEN 1 + word_run(s, i + 1) ELSE 0

\* the length of the match of pattern p at position i of s under re.IGNORECASE,
\* 0 when there is none
match_at(p, s, i) ==
    LET n == 2 + Len(p.rest)
    IN  IF /\ i + n - 1 <= Len(s)
           /\ (i = 1 \/ ~is_word(s[i - 1]))
           /\ lower_char(s[i]) = p.first
           /\ (s[i + 1] = "*" \/ lower_char(s[i + 1]) = p.second)
           /\ lower(SubSeq(s, i + 2, i + n - 1)) = p.rest
        THEN IF p.tail THEN n + word_run(s, i + n)
             ELSE IF word_run(s, i + n) = 0 THEN n ELSE 0
        ELSE 0

RECURSIVE re_sub(_, _, _, _)
\* re.sub(pattern, p.to, s, flags=re.IGNORECASE) from position i on: matches are
\* found left to right and do not overlap
re_sub(p, s, i, out) ==
    LET replaced(j) ==
            re_sub(p, s, j + match_at(p, s, j), out \o SubSeq(s, i, j - 1) \o p.to)
        leftmost(starts) ==
            IF starts = {} THEN out \o SubSeq(s, i, Len(s))
            ELSE replaced(CHOOSE j \in starts : \A k \in starts : j <= k)
    IN  leftmost({j \in i..Len(s) : match_at(p, s, j) > 0})

RECURSIVE replace_all(_, _)
\* for pattern, replacement in replacements.items(): cleaned = re.sub(...)
replace_all(k, s) ==
    IF k > Len(replacements) THEN s
    ELSE replace_all(k + 1, re_sub(replacements[k], s, 1, <<>>))

RECURSIVE squeeze(_, _)
\* re.sub(X{2,}, to, s) for a set X of characters: each run of two or more
\* characters of X becomes to
squeeze(s, X) ==
    LET run_end(j) == CHOOSE n \in (j + 1)..Len(s) :
                         /\ \A k \in j..n : s[k] \in X.chars
                         /\ (n = Len(s) \/ s[n + 1] \notin X.chars)
        replaced(j, n) ==
            SubSeq(s, 1, j - 1) \o X.to \o squeeze(SubSeq(s, n + 1, Len(s)), X)
        leftmost(starts) ==
            IF starts = {} THEN s
            ELSE LET first(j) == replaced(j, run_end(j))
                 IN  first(CHOOSE j \in starts : \A k \in starts : j <= k)
    IN  leftmost({j \in 1..(Len(s) - 1) : s[j] \in X.chars /\ s[j + 1] \in X.chars})

\* one line of the clean-up loop of _sanitize_response
clean_line(line) ==
    IF strip(line) = <<>> THEN <<>>
    ELSE LET cleaned(content) ==
                 LET leading_spaces == SubSeq(line, 1, Len(line) - Len(content))
                     cleaned_content ==
                         squeeze(content, [chars |-> {" ", "\t"}, to |-> <<" ">>])
                 IN  leading_spaces \o rstrip(cleaned_content)
         IN  cleaned(lstrip(line))

\* mutant: the runs of '!' are collapsed before the words are replaced
_sanitize_response_emphasis_first(response) ==
    LET cleaned == replace_all(1, squeeze(response, [chars |-> {"!"}, to |-> <<"!">>]))
        cleaned_lines(lines) == [i \in 1..Len(lines) |-> clean_line(lines[i])]
    IN  join(<<NL>>, cleaned_lines(split_char(cleaned, NL)))

_sanitize_response(response) ==
    LET cleaned == squeeze(replace_all(1, response), [chars |-> {"!"}, to |-> <<"!">>])
        cleaned_lines(lines) == [i \in 1..Len(lines) |-> clean_line(lines[i])]
    IN  join(<<NL>>, cleaned_lines(split_char(cleaned, NL)))

\* The five templates of generate_fallback_response, each by its heading and its
\* closing note; only the last one is an f-string that holds {error}.
FallbackBusinessPlan ==
    <<NL>> \o <<"*", "*", "B", "u", "s", "i", "n", "e", "s", "s", " ", "P", "l", "a", "n", " ", "F", "r", "a", "m", "e", "w", "o", "r", "k", "*", "*">> \o <<NL>>
      \o <<"*", "N", "o", "t", "e", ":", " ", "A", "I", " ", "s", "e", "r", "v", "i", "c", "e", " ", "t", "e", "m", "p", "o", "r", "a", "r", "i", "l", "y", " ", "u", "n", "a", "v", "a", "i", "l", "a", "b", "l", "e", ",", " ", "b", "u", "t", " ", "t", "h", "i", "s", " ", "f", "r", "a", "m", "e", "w", "o", "r", "k", " ", "w", "i", "l", "l", " ", "g", "u", "i", "d", "e", " ", "y", "o", "u", "r", " ", "p", "l", "a", "n", "n", "i", "n", "g", " ", "p", "r", "o", "c", "e", "s", "s", ".", "*">>
      \o <<NL>>
FallbackFinancial ==
    <<NL>> \o <<"*", "*", "F", "i", "n", "a", "n", "c", "i", "a", "l", " ", "P", "l", "a", "n", "n", "i", "n", "g", " ", "G", "u", "i", "d", "e", "l", "i", "n", "e", "s", "*", "*">> \o <<NL>>
      \o <<"*", "N", "o", "t", "e", ":", " ", "T", "h", "e", "s", "e", " ", "a", "r", "e", " ", "g", "e", "n", "e", "r", "a", "l", " ", "e", "s", "t", "i", "m", "a", "t", "e", "s", ".", " ", "R", "e", "s", "e", "a", "r", "c", "h", " ", "l", "o", "c", "a", "l", " ", "c", "o", "s", "t", "s", " ", "f", "o", "r", " ", "a", "c", "c", "u", "r", "a", "c", "y", ".", "*">> \o <<NL>>
FallbackLaunch ==
    <<NL>> \o <<"*", "*", "B", "u", "s", "i", "n", "e", "s", "s", " ", "L", "a", "u", "n", "c", "h", " ", "C", "h", "e", "c", "k", "l", "i", "s", "t", "*", "*">> \o <<NL>>
      \o <<"*", "N", "o", "t", "e", ":", " ", "C", "o", "n", "s", "u", "l", "t", " ", "l", "o", "c", "a", "l", " ", "b", "u", "s", "i", "n", "e", "s", "s", " ", "r", "e", "s", "o", "u", "r", "c", "e", "s", " ", "f", "o", "r", " ", "r", "e", "g", "i", "o", "n", "-", "s", "p", "e", "c", "i", "f", "i", "c", " ", "r", "e", "q", "u", "i", "r", "e", "m", "e", "n", "t", "s", ".", "*">> \o <<NL>>
FallbackMarketing ==
    <<NL>> \o <<"*", "*", "M", "a", "r", "k", "e", "t", "i", "n", "g", " ", "S", "t", "r", "a", "t", "e", "g", "y", " ", "F", "r", "a", "m", "e", "w", "o", "r", "k", "*", "*">> \o <<NL>>
      \o <<"*", "N", "o", "t", "e", ":", " ", "M", "a", "r", "k", "e", "t", "i", "n", "g", " ", "s", "e", "r", "v", "i", "c", "e", " ", "a", "n", "a", "l", "y", "s", "i", "s", " ", "t", "e", "m", "p", "o", "r", "a", "r", "i", "l", "y", " ", "u", "n", "a", "v", "a", "i", "l", "a", "b", "l", "e", ".", "*">> \o <<NL>>
FallbackGeneral(error) ==
    <<NL>> \o <<"*", "*", "B", "u", "s", "i", "n", "e", "s", "s", " ", "A", "d", "v", "i", "s", "o", "r", "y", " ", "R", "e", "s", "p", "o", "n", "s", "e", "*", "*">> \o <<NL>>
      \o <<"*", "S", "e", "r", "v", "i", "c", "e", " ", "N", "o", "t", "e", ":", " ">> \o error \o <<"*">> \o <<NL>>

\* mutant: the marketing rule is tried first
generate_fallback_response_marketing_first(prompt, error) ==
    LET template(prompt_lower) ==
            IF contains(<<"m", "a", "r", "k", "e", "t", "i", "n", "g">>, prompt_lower)
            THEN FallbackMarketing
            ELSE IF \/ contains(<<"b", "u", "s", "i", "n", "e", "s", "s", " ", "p", "l", "a", "n">>, prompt_lower)
                    \/ contains(<<"c", "o", "m", "p", "r", "e", "h", "e", "n", "s", "i", "v", "e">>, prompt_lower)
            THEN FallbackBusinessPlan
            ELSE IF \/ contains(<<"c", "o", "s", "t">>, prompt_lower) \/ contains(<<"f", "i", "n", "a", "n", "c", "i", "a", "l">>, prompt_lower)
                    \/ contains(<<"b", "u", "d", "g", "e", "t">>, prompt_lower)
            THEN FallbackFinancial
            ELSE IF contains(<<"l", "a", "u", "n", "c", "h">>, prompt_lower) \/ contains(<<"r", "e", "g", "i", "s", "t", "e", "r">>, prompt_lower)
            THEN FallbackLaunch
            ELSE FallbackGeneral(error)
    IN  template(lower(prompt))

generate_fallback_response(prompt, error) ==
    LET template(prompt_lower) ==
            IF \/ contains(<<"b", "u", "s", "i", "n", "e", "s", "s", " ", "p", "l", "a", "n">>, prompt_lower)
               \/ contains(<<"c", "o", "m", "p", "r", "e", "h", "e", "n", "s", "i", "v", "e">>, prompt_lower)
            THEN FallbackBusinessPlan
            ELSE IF \/ contains(<<"c", "o", "s", "t">>, prompt_lower) \/ contains(<<"f", "i", "n", "a", "n", "c", "i", "a", "l">>, prompt_lower)
                    \/ contains(<<"b", "u", "d", "g", "e", "t">>, prompt_lower)
            THEN FallbackFinancial
            ELSE IF contains(<<"l", "a", "u", "n", "c", "h">>, prompt_lower) \/ contains(<<"r", "e", "g", "i", "s", "t", "e", "r">>, prompt_lower)
            THEN FallbackLaunch
            ELSE IF contains(<<"m", "a", "r", "k", "e", "t", "i", "n", "g">>, prompt_lower)
            THEN FallbackMarketing
            ELSE FallbackGeneral(error)
    IN  template(lower(prompt))

\* repr of the type of a value, as Python's error messages name it
type_name(x) ==
    CASE x.t = "NoneType" -> <<"N", "o", "n", "e", "T", "y", "p", "e">>
      [] x.t = "str" -> <<"s", "t", "r">>
      [] x.t = "int" -> <<"i", "n", "t">>
      [] x.t = "bool" -> <<"b", "o", "o", "l">>
      [] x.t = "list" -> <<"l", "i", "s", "t">>
      [] x.t = "dict" -> <<"d", "i", "c", "t">>
      [] OTHER -> <<"o", "b", "j", "e", "c", "t">>

\* x[key] for a string key
subscript_key(x, key, name) ==
    IF x.t = "dict"
    THEN IF key \in DOMAIN x.v THEN Returned(x.v[key])
         ELSE Raised("KeyError", <<"'">> \o name \o <<"'">>)
    ELSE IF x.t \in {"list", "str"}
    THEN Raised("TypeError", type_name(x) \o <<" ", "i", "n", "d", "i", "c", "e", "s", " ", "m", "u", "s", "t", " ", "b", "e", " ", "i", "n", "t", "e", "g", "e", "r", "s">>)
    ELSE Raised("TypeError", <<"'">> \o type_name(x) \o <<"'", " ", "o", "b", "j", "e", "c", "t", " ", "i", "s", " ", "n", "o", "t", " ", "s", "u", "b", "s", "c", "r", "i", "p", "t", "a", "b", "l", "e">>)

\* x[0]
subscript_0(x) ==
    CASE x.t = "list" -> IF x.v = <<>> THEN Raised("IndexError", <<"l", "i", "s", "t", " ", "i", "n", "d", "e", "x", " ", "o", "u", "t", " ", "o", "f", " ", "r", "a", "n", "g", "e">>)
                         ELSE Returned(x.v[1])
      [] x.t = "str" -> IF x.v = <<>> THEN Raised("IndexError", <<"s", "t", "r", "i", "n", "g", " ", "i", "n", "d", "e", "x", " ", "o", "u", "t", " ", "o", "f", " ", "r", "a", "n", "g", "e">>)
                        ELSE Returned(PyStr(<<x.v[1]>>))
      [] x.t = "dict" -> Raised("KeyError", <<"0">>)
      [] OTHER -> Raised("TypeError", <<"'">> \o type_name(x) \o <<"'", " ", "o", "b", "j", "e", "c", "t", " ", "i", "s", " ", "n", "o", "t", " ", "s", "u", "b", "s", "c", "r", "i", "p", "t", "a", "b", "l", "e">>)

\* mutant: the first n, s[:n]
last_n_first(s, n) == IF Len(s) <= n THEN s ELSE SubSeq(s, 1, n)

\* s[-n:]
last_n(s, n) == IF Len(s) <= n THEN s ELSE SubSeq(s, Len(s) - n + 1, Len(s))

HistoryWindow == 10

SystemPrompt == PyStr(<<"Y", "o", "u", " ", "a", "r", "e", " ", "a", " ", "p", "r", "o", "f", "e", "s", "s", "i", "o", "n", "a", "l", " ", "b", "u", "s", "i", "n", "e", "s", "s", " ", "a", "d", "v", "i", "s", "o", "r">>)

RECURSIVE history_loop(_, _)
\* for msg in chat_history[-10:]: messages.append({"role": msg["role"], ...})
history_loop(msgs, messages) ==
    IF msgs = <<>> THEN Returned(messages)
    ELSE LET appended(role, content) ==
                 IF role.raised THEN role
                 ELSE IF content.raised THEN content
                 ELSE history_loop(Tail(msgs),
                          Append(messages, [role |-> role.value, content |-> content.value]))
         IN  appended(subscript_key(Head(msgs), "role", <<"r", "o", "l", "e">>),
                      subscript_key(Head(msgs), "content", <<"c", "o", "n", "t", "e", "n", "t">>))

\* the messages array generate_response builds
build_messages(prompt, history) ==
    LET system == << [role |-> PyStr(<<"s", "y", "s", "t", "e", "m">>), content |-> SystemPrompt] >>
        with_history ==
            IF ~truthy(history) THEN Returned(system)
            ELSE IF history.t = "list"
                 THEN history_loop(last_n(history.v, HistoryWindow), system)
            ELSE IF history.t = "str"
                 THEN Raised("TypeError", <<"s", "t", "r", "i", "n", "g", " ", "i", "n", "d", "i", "c", "e", "s", " ", "m", "u", "s", "t", " ", "b", "e", " ", "i", "n", "t", "e", "g", "e", "r", "s">>)
            ELSE Raised("TypeError",
                        <<"'">> \o type_name(history) \o <<"'", " ", "o", "b", "j", "e", "c", "t", " ", "i", "s", " ", "n", "o", "t", " ", "s", "u", "b", "s", "c", "r", "i", "p", "t", "a", "b", "l", "e">>)
        with_prompt(messages) ==
            IF messages.raised THEN messages
            ELSE Returned(Append(messages.value,
                                 [role |-> PyStr(<<"u", "s", "e", "r">>), content |-> PyStr(prompt)]))
    IN  with_prompt(with_history)

\* What requests.post does: it raises requests.exceptions.Timeout ("Timeout"), a
\* requests.exceptions.ConnectionError ("ConnectionError") or something else
\* ("Exception"), or it answers with a status code and a body; response.json()
\* raises when the body is NotJson.
NotJson == PyObject("text/html")
PostRaises(kind, msg) == [kind |-> kind, msg |-> msg, code |-> 0, body |-> PyNone]
PostAnswers(code, body) == [kind |-> "answer", msg |-> <<>>, code |-> code, body |-> body]

\* the outcome of a generate_response call
DobbyDone(ret, http_calls, messages, fallback, error) ==
    [raised |-> FALSE, exc |-> NoException, tried |-> NoException, ret |-> ret,
     http_calls |-> http_calls, messages |-> messages, fallback |-> fallback,
     error |-> error]
DobbyRaised(exc, http_calls, messages) ==
    [raised |-> TRUE, exc |-> exc, tried |-> exc, ret |-> <<>>, http_calls |-> http_calls,
     messages |-> messages, fallback |-> FALSE, error |-> <<>>]

\* result["choices"][0]["message"]["content"].strip()
raw_response(result) ==
    LET stripped(content) ==
            IF content.raised THEN content
            ELSE IF content.value.t # "str"
            THEN Raised("AttributeError",
                        <<"'">> \o type_name(content.value)
                              \o <<"'", " ", "o", "b", "j", "e", "c", "t", " ", "h", "a", "s", " ", "n", "o", " ", "a", "t", "t", "r", "i", "b", "u", "t", "e", " ", "'", "s", "t", "r", "i", "p", "'">>)
            ELSE Returned(strip(content.value.v))
        of_message(message) ==
            IF message.raised THEN message
            ELSE stripped(subscript_key(message.value, "content", <<"c", "o", "n", "t", "e", "n", "t">>))
        of_first(first) ==
            IF first.raised THEN first
            ELSE of_message(subscript_key(first.value, "message", <<"m", "e", "s", "s", "a", "g", "e">>))
        of_choices(choices) ==
            IF choices.raised THEN choices ELSE of_first(subscript_0(choices.value))
    IN  of_choices(subscript_key(result, "choices", <<"c", "h", "o", "i", "c", "e", "s">>))

\* f"Fireworks API error: {response.status_code}" and its suffix
error_msg(status_code) ==
    <<"F", "i", "r", "e", "w", "o", "r", "k", "s", " ", "A", "P", "I", " ", "e", "r", "r", "o", "r", ":", " ">> \o int_str(status_code) \o
    (CASE status_code = 401 -> <<" ", "-", " ", "I", "n", "v", "a", "l", "i", "d", " ", "A", "P", "I", " ", "k", "e", "y">>
       [] status_code = 429 -> <<" ", "-", " ", "R", "a", "t", "e", " ", "l", "i", "m", "i", "t", " ", "e", "x", "c", "e", "e", "d", "e", "d">>
       [] status_code = 503 -> <<" ", "-", " ", "S", "e", "r", "v", "i", "c", "e", " ", "t", "e", "m", "p", "o", "r", "a", "r", "i", "l", "y", " ", "u", "n", "a", "v", "a", "i", "l", "a", "b", "l", "e">>
       [] OTHER -> <<>>)

\* a list or dictionary that holds an object json cannot encode
RECURSIVE encodable(_)
encodable(x) ==
    CASE x.t = "object" -> FALSE
      [] x.t = "list" -> \A i \in 1..Len(x.v) : encodable(x.v[i])
      [] x.t = "dict" -> \A k \in DOMAIN x.v : encodable(x.v[k])
      [] OTHER -> TRUE

\* the try block of generate_response: what it returns, or the exception it
\* raises and its class as the except clauses see it
generate_try(prompt, history, http) ==
    LET failed(messages, error) ==
            DobbyDone(generate_fallback_response(prompt, error), 1, messages, TRUE, error)
        sanitized(messages, raw) ==
            IF raw.raised THEN DobbyRaised(raw.exc, 1, messages)
            ELSE DobbyDone(_sanitize_response(raw.value), 1, messages, FALSE, <<>>)
        posted(messages) ==
            IF \E i \in 1..Len(messages) :
                  ~encodable(messages[i].role) \/ ~encodable(messages[i].content)
            THEN DobbyRaised([type |-> "TypeError",
                              msg |-> <<"O", "b", "j", "e", "c", "t", " ", "i", "s", " ", "n", "o", "t", " ", "J", "S", "O", "N", " ", "s", "e", "r", "i", "a", "l", "i", "z", "a", "b", "l", "e">>], 0, messages)
            ELSE IF http.kind # "answer"
            THEN DobbyRaised([type |-> http.kind, msg |-> http.msg], 1, messages)
            ELSE IF http.code = 200
            THEN IF http.body = NotJson
                 THEN DobbyRaised([type |-> "JSONDecodeError",
                                   msg |-> <<"E", "x", "p", "e", "c", "t", "i", "n", "g", " ", "v", "a", "l", "u", "e", ":", " ", "l", "i", "n", "e", " ", "1", " ", "c", "o", "l", "u", "m", "n", " ", "1", " ", "(", "c", "h", "a", "r", " ", "0", ")">>],
                                  1, messages)
                 ELSE sanitized(messages, raw_response(http.body))
            ELSE failed(messages, error_msg(http.code))
        built(messages) ==
            IF messages.raised THEN DobbyRaised(messages.exc, 0, <<>>)
            ELSE posted(messages.value)
    IN  built(build_messages(prompt, history))

\* mutant: no except Exception clause after Timeout and ConnectionError
generate_response_two_excepts(prompt, history, http) ==
    LET fallback(tried, error) ==
            [DobbyDone(generate_fallback_response(prompt, error), tried.http_calls,
                       tried.messages, TRUE, error) EXCEPT !.tried = tried.exc]
        except(tried) ==
            IF ~tried.raised \/ tried.exc.type \notin {"Timeout", "ConnectionError"}
            THEN tried
            ELSE fallback(tried,
                     IF tried.exc.type = "Timeout" THEN <<"R", "e", "q", "u", "e", "s", "t", " ", "t", "i", "m", "e", "o", "u", "t">>
                     ELSE <<"C", "o", "n", "n", "e", "c", "t", "i", "o", "n", " ", "e", "r", "r", "o", "r">>)
    IN  except(generate_try(prompt, history, http))

\* mutant: after a timeout the request is sent once more before the fallback
generate_response_retry(prompt, history, http) ==
    LET fallback(tried, error) ==
            [DobbyDone(generate_fallback_response(prompt, error),
                       IF tried.exc.type = "Timeout" THEN tried.http_calls + 1
                       ELSE tried.http_calls,
                       tried.messages, TRUE, error) EXCEPT !.tried = tried.exc]
        except(tried) ==
            IF ~tried.raised THEN tried
            ELSE fallback(tried,
                     CASE tried.exc.type = "Timeout" -> <<"R", "e", "q", "u", "e", "s", "t", " ", "t", "i", "m", "e", "o", "u", "t">>
                       [] tried.exc.type = "ConnectionError" -> <<"C", "o", "n", "n", "e", "c", "t", "i", "o", "n", " ", "e", "r", "r", "o", "r">>
                       [] OTHER -> <<"U", "n", "e", "x", "p", "e", "c", "t", "e", "d", " ", "e", "r", "r", "o", "r", ":", " ">> \o tried.exc.msg)
    IN  except(generate_try(prompt, history, http))

\* generate_response: the three except clauses turn what the try block raised
\* into the fallback text
generate_response(prompt, history, http) ==
    LET fallback(tried, error) ==
            [DobbyDone(generate_fallback_response(prompt, error), tried.http_calls,
                       tried.messages, TRUE, error) EXCEPT !.tried = tried.exc]
        except(tried) ==
            IF ~tried.raised THEN tried
            ELSE fallback(tried,
                     CASE tried.exc.type = "Timeout" -> <<"R", "e", "q", "u", "e", "s", "t", " ", "t", "i", "m", "e", "o", "u", "t">>
                       [] tried.exc.type = "ConnectionError" -> <<"C", "o", "n", "n", "e", "c", "t", "i", "o", "n", " ", "e", "r", "r", "o", "r">>
                       [] OTHER -> <<"U", "n", "e", "x", "p", "e", "c", "t", "e", "d", " ", "e", "r", "r", "o", "r", ":", " ">> \o tried.exc.msg)
    IN  except(generate_try(prompt, history, http))
-----------------------------------------------------------------------------
(* One search call: the query, the mode, and what the provider and the          *)
(* reranker do                                                                  *)

Item(title, snippet, link) ==
    PyDict([title |-> PyStr(title), snippet |-> PyStr(snippet), link |-> PyStr(link)])

ShoeShop == Item(<<"R", "e", "d", " ", "S", "h", "o", "e", "s", " ", "s", "h", "o", "p">>, <<"b", "u", "y", " ", "r", "e", "d", " ", "s", "h", "o", "e", "s">>, <<"h", "t", "t", "p", "s", ":", "/", "/", "a">>)
CoffeeNews == Item(<<"c", "o", "f", "f", "e", "e", " ", "n", "e", "w", "s">>, <<"t", "h", "e", " ", "c", "o", "f", "f", "e", "e", " ", "b", "u", "s", "i", "n", "e", "s", "s", " ", "i", "n", " ", "2", "0", "2", "4">>, <<"h", "t", "t", "p", "s", ":", "/", "/", "b">>)
NoLink == PyDict([title |-> PyStr(<<"c", "i", "t", "y", " ", "g", "u", "i", "d", "e">>), snippet |-> PyNone])
IntSnippet == PyDict([title |-> PyStr(<<"s", "h", "o", "e", "s">>), snippet |-> PyInt(5)])
IntTitle == PyDict([title |-> PyInt(2024), snippet |-> PyStr(<<"r", "e", "d", " ", "s", "h", "o", "e", "s", " ", "s", "a", "l", "e">>),
                    link |-> PyStr(<<"h", "t", "t", "p", "s", ":", "/", "/", "c">>)])

Body(items) == HttpJson(PyDict([organic |-> PyList(items)]))
Failed == HttpRaises("RequestException")

SearchQueries == { PyStr(<<"r", "e", "d", " ", "s", "h", "o", "e", "s">>), PyStr(<<"c", "o", "f", "f", "e", "e", " ", "b", "u", "s", "i", "n", "e", "s", "s">>),
                   PyStr(<<"c", "i", "t", "y", " ", "m", "a", "r", "k", "e", "t">>), PyStr(<<"m", "y", " ", "s", "t", "a", "r", "t", "u", "p">>), PyNone }
SearchNumResults == {0, 1, 5}

\* what the provider does on the first, second and third call
HttpScripts ==
    { <<Failed, Failed, Failed>>,
      <<Body(<<ShoeShop, CoffeeNews>>), Failed, Body(<<NoLink>>)>>,
      <<Body(<<CoffeeNews>>), Body(<<ShoeShop, NoLink>>), Body(<<ShoeShop>>)>>,
      <<HttpJson(EmptyPyDict), HttpJson(EmptyPyDict), Body(<<>>)>>,
      <<Body(<<ShoeShop>>), Body(<<>>), HttpJson(EmptyPyDict)>>,
      <<Failed, HttpRaises("Exception"), Failed>>,
      <<HttpJson(PyList(<<ShoeShop>>)), Failed, Failed>>,
      <<Body(<<ShoeShop, PyStr(<<"o", "o", "p", "s">>)>>), Failed, Failed>>,
      <<Body(<<CoffeeNews, IntSnippet>>), Failed, Failed>>,
      <<Body(<<CoffeeNews, IntTitle>>), Failed, Failed>> }

Ranked(index, num, den) == PyDict([index |-> PyInt(index), relevance_score |-> Frac(num, den)])

JinaOutcomes ==
    { HttpRaises("Exception"),
      JinaAnswer(500, PyNone),
      JinaAnswer(200, PyDict([detail |-> PyStr(<<"n", "o", " ", "r", "e", "s", "u", "l", "t", "s">>)])),
      JinaAnswer(200, PyDict([results |-> PyList(<<Ranked(1, 9, 10), Ranked(0, 1, 2)>>)])),
      JinaAnswer(200, PyDict([results |-> PyList(<<Ranked(0, 1, 2), Ranked(0, 1, 2),
                                                   Ranked(7, 1, 1), Ranked(-1, 3, 4)>>)])),
      JinaAnswer(200, PyDict([results |-> PyList(<<>>)])),
      JinaAnswer(200, PyDict([results |-> PyList(<<Ranked(0, 1, 2), PyInt(3)>>)])) }

JinaKeys == { <<>>, <<"j", "i", "n", "a", "-", "k", "e", "y">> }

NoSearch == [op |-> "none", query |-> PyNone, num_results |-> 0, deep_mode |-> FALSE,
             http |-> <<>>, jina_api_key |-> <<>>, jina |-> HttpRaises("Exception"),
             caught |-> FALSE, raised |-> FALSE, exc |-> NoException, ret |-> EmptyDict,
             serper_calls |-> 0, serper_queries |-> <<>>, jina_calls |-> 0,
             ranking |-> "none", was_ranked |-> FALSE, candidates |-> <<>>,
             ranked |-> <<>>]

-----------------------------------------------------------------------------
(* One generate_response call: the prompt, the history, and what the HTTP call  *)
(* does                                                                         *)

Prompts == { <<"W", "r", "i", "t", "e", " ", "a", " ", "c", "o", "m", "p", "r", "e", "h", "e", "n", "s", "i", "v", "e", " ", "B", "u", "s", "i", "n", "e", "s", "s", " ", "P", "l", "a", "n">>, <<"w", "h", "a", "t", " ", "w", "i", "l", "l", " ", "i", "t", " ", "c", "o", "s", "t">>,
             <<"H", "o", "w", " ", "d", "o", " ", "I", " ", "r", "e", "g", "i", "s", "t", "e", "r", "?">>, <<"m", "a", "r", "k", "e", "t", "i", "n", "g", " ", "i", "d", "e", "a", "s">>, <<"h", "e", "l", "l", "o">>, <<>>,
             <<"M", "a", "r", "k", "e", "t", "i", "n", "g", " ", "b", "u", "d", "g", "e", "t", " ", "f", "o", "r", " ", "t", "h", "e", " ", "L", "a", "u", "n", "c", "h">> }

Turn(role, content) == PyDict([role |-> PyStr(role), content |-> PyStr(content)])

MaxHistory == 12

\* a history of n turns, numbered from the oldest
LongHistory(n) ==
    PyList([i \in 1..n |-> Turn(IF i % 2 = 1 THEN <<"u", "s", "e", "r">> ELSE <<"a", "s", "s", "i", "s", "t", "a", "n", "t">>,
                                <<"t", "u", "r", "n", " ">> \o int_str(i))])

Histories ==
    { PyNone, PyList(<<>>),
      LongHistory(2), LongHistory(HistoryWindow), LongHistory(MaxHistory),
      PyList(<<Turn(<<"u", "s", "e", "r">>, <<"h", "i">>), PyDict([role |-> PyStr(<<"a", "s", "s", "i", "s", "t", "a", "n", "t">>)])>>),
      PyList(<<PyStr(<<"h", "i">>)>>),
      PyList(<<PyDict([role |-> PyStr(<<"u", "s", "e", "r">>), content |-> PyObject("datetime")])>>),
      PyInt(3), PyStr(<<"h", "i">>) }

Completion(content) ==
    PyDict([choices |-> PyList(<<PyDict([message |-> PyDict([content |-> content])])>>)])

PostOutcomes ==
    { PostRaises("Timeout", <<"R", "e", "a", "d", " ", "t", "i", "m", "e", "d", " ", "o", "u", "t", ".">>),
      PostRaises("ConnectionError", <<"C", "o", "n", "n", "e", "c", "t", "i", "o", "n", " ", "r", "e", "f", "u", "s", "e", "d">>),
      PostRaises("Exception", <<"S", "S", "L", " ", "e", "r", "r", "o", "r">>),
      PostAnswers(401, PyNone), PostAnswers(429, PyNone), PostAnswers(503, PyNone),
      PostAnswers(500, NotJson),
      PostAnswers(200, NotJson),
      PostAnswers(200, EmptyPyDict),
      PostAnswers(200, PyList(<<>>)),
      PostAnswers(200, PyDict([choices |-> PyList(<<>>)])),
      PostAnswers(200, PyDict([choices |-> PyNone])),
      PostAnswers(200, PyDict([choices |-> PyList(<<PyStr(<<"x">>)>>)])),
      PostAnswers(200, PyDict([choices |-> PyList(<<PyDict([message |-> EmptyPyDict])>>)])),
      PostAnswers(200, Completion(PyNone)),
      PostAnswers(200, Completion(PyStr(<<>>))),
      PostAnswers(200, Completion(PyStr(<<" ", " ", "P", "l", "a", "n", ":", NL, " ", " ", " ", " ", "-", " ", "s", "t", "e", "p", " ", " ", "o", "n", "e", "!", "!", "!", NL, NL, " ", " ", "g", "o", " ", " ">>))),
      PostAnswers(200, Completion(PyStr(<<"W", "h", "a", "t", " ", "t", "h", "e", " ", "h", "*", "l", "l", ",", " ", "a", " ", "d", "a", "m", "n", "e", "d", " ", "S", "h", "i", "t", "t", "y", " ", "a", "s", "s", " ", "p", "l", "a", "n", "!", "!">>))) }

NoGenerate == [op |-> "none", prompt |-> <<>>, chat_history |-> PyNone,
               http |-> PostRaises("Exception", <<>>), raised |-> FALSE,
               exc |-> NoException, ret |-> <<>>, http_calls |-> 0, messages |-> <<>>,
               fallback |-> FALSE, error |-> <<>>, tried |-> NoException]

-----------------------------------------------------------------------------
(* Bounds and inputs *)

MaxSubmits == 5      \* submissions in one session
MaxStoreCalls == 3   \* StateManager calls in SpecStore
MaxMinute == 1       \* minutes the clock advances in SpecStore
MaxSecond == 1       \* seconds the clock advances within a minute in SpecStore
MaxLogCalls == 103   \* log_task / process_request calls in SpecLog

\* st.chat_input returns a non-empty prompt
Hi == <<"h", "i">>
Start == <<"S", "t", "a", "r", "t">>

AnswerAll == <<"M", "a", "r", "k", "e", "t", " ", "R", "e", "s", "e", "a", "r", "c", "h", ",", " ", "B", "u", "s", "i", "n", "e", "s", "s", " ", "P", "l", "a", "n", ",", " ", "b", "u", "d", "g", "e", "t", ",", " ", "r", "e", "l", "a", "u", "n", "c", "h">>
AnswerEmpty == <<>>
AnswerResearch == <<"r", "e", "s", "e", "a", "r", "c", "h", " ", "i", "t">>
AnswerName == <<"C", "o", "m", "p", "a", "n", "y", " ", "n", "a", "m", "e", NL, "N", "a", "m", "e", ":", " ", "A", "c", "m", "e", " ", "C", "o", " ", " ", NL, "c", "o", "s", "t", ":", " ", "$", "5">>

Boom == [type |-> "RuntimeError", msg |-> <<"b", "o", "o", "m">>]

Obj == <<"o", "b", "j">>

\* the submissions of a session: the prompt and what the solver does with it
Submissions ==
    { <<Hi, SolveReturns(PyStr(AnswerAll), Obj, PyStr(<<"t", "1">>))>>,
      <<Hi, SolveReturns(PyNone, AnswerResearch, PyNone)>>,
      <<Start, SolveReturns(PyNone, AnswerResearch, PyNone)>>,
      <<Hi, SolveReturns(PyStr(AnswerName), Obj, PyNone)>>,
      <<Hi, SolveReturns(PyStr(AnswerEmpty), Obj, PyNone)>>,
      <<Start, SolveRaises(Boom)>> }

\* the arguments of a single process_request call
RequestInputs ==
    { Hi, Start, <<"d", "o", " ", "M", "A", "R", "K", "E", "T", " ", "r", "e", "s", "e", "a", "r", "c", "h">>, <<"m", "a", "r", "k", "e", "t">>, <<"m", "y", " ", "B", "u", "d", "g", "e", "t", "i", "n", "g">>, <<"R", "e", "l", "a", "u", "n", "c", "h">>,
      <<"c", "r", "e", "a", "t", "e">> }
RequestAnswers ==
    { AnswerAll, AnswerResearch, AnswerName, AnswerEmpty, <<"F", "i", "n", "a", "n", "c", "i", "a", "l", "l", "y", " ", "s", "o", "u", "n", "d">>,
      <<"p", "l", "a", "n", " ", "i", "t", ":", " ", "D", "e", "v", "e", "l", "o", "p", " ", "S", "t", "r", "a", "t", "e", "g", "y">>, <<"w", "e", " ", "R", "e", "g", "i", "s", "t", "e", "r", " ", "t", "h", "e", " ", "i", "n", "d", "u", "s", "t", "r", "y">>, <<"o", "k">> }
RequestSolves ==
    { SolveReturns(PyStr(a), Obj, PyNone) : a \in RequestAnswers }
        \cup { SolveReturns(PyNone, a, PyNone) : a \in {AnswerResearch, <<"o", "k">>} }
        \cup { SolveRaises(Boom) }
RequestPlans == { EmptyDict, [business_name |-> PyStr(<<"A", "c", "m", "e">>)] }

-----------------------------------------------------------------------------
(* The session: src/app.py *)

Message(role, content) == [role |-> role, content |-> content]

\* "Error: " stands for the marker the error messages start with
ErrorPrefix == <<"E", "r", "r", "o", "r", ":", " ">>
InvalidResponse == ErrorPrefix \o <<"I", "n", "v", "a", "l", "i", "d", " ", "r", "e", "s", "p", "o", "n", "s", "e", " ", "f", "r", "o", "m", " ", "o", "r", "c", "h", "e", "s", "t", "r", "a", "t", "o", "r">>
EmptyResponse == ErrorPrefix \o <<"E", "m", "p", "t", "y", " ", "r", "e", "s", "p", "o", "n", "s", "e", " ", "f", "r", "o", "m", " ", "o", "r", "c", "h", "e", "s", "t", "r", "a", "t", "o", "r">>

\* the record kept of a process_request call
Request(user_input, stage, solve, r) ==
    [user_input |-> user_input, stage |-> stage, solve_raises |-> solve.raises,
     raised |-> r.raised, exc |-> r.exc, returned |-> r.returned,
     response |-> r.response, determined |-> r.determined, solve_calls |-> r.solve_calls,
     extract_calls |-> r.extract_calls, determine_calls |-> r.determine_calls,
     enriched_task |-> r.enriched_task]

NoRequest == [user_input |-> <<>>, stage |-> None, solve_raises |-> FALSE,
              raised |-> FALSE, exc |-> NoException, returned |-> FALSE,
              response |-> NoResponse, determined |-> None, solve_calls |-> 0,
              extract_calls |-> 0,
              determine_calls |-> 0, enriched_task |-> None]


NoStoreCall == [op |-> "none", plan |-> EmptyDict, plan_id |-> PyNone, ret |-> PyNone,
                calls |-> 0]

\* mutant: the stage is updated before the message is looked at
process_user_input_stage_first(stage, plan, chat, fs, cfs, prompt, r, t) ==
    LET chat1 == Append(chat, Message("user", prompt))
        ok == r.returned /\ r.response.message # <<>>
        update == IF ok THEN r.response.business_plan_update ELSE PyNone
        plan1 == IF truthy(update) THEN dict_update(plan, update.v) ELSE plan
        saved == IF truthy(update) THEN save_business_plan(fs, plan1, PyNone, t, "ok")
                 ELSE [files |-> fs, ret |-> <<>>]
        stage1 == IF r.returned /\ r.response.next_stage # None THEN r.response.next_stage
                  ELSE stage
        chat2 == IF ~r.returned   \* except Exception as e
                 THEN Append(chat, Message("assistant", ErrorPrefix \o r.exc.msg))
                 ELSE IF r.response.message = <<>>
                 THEN Append(chat1, Message("assistant", EmptyResponse))
                 ELSE Append(chat1, Message("assistant", r.response.message))
        chat_saved == save_chat_history(cfs, chat2, PyNone, t, "ok")
    IN  [current_stage |-> stage1, business_plan |-> plan1, chat_history |-> chat2,
         files |-> saved.files, chat_files |-> chat_saved.files]

\* mutant: the except clause appends nothing to the chat history
process_user_input_silent(stage, plan, chat, fs, cfs, prompt, r, t) ==
    LET chat1 == Append(chat, Message("user", prompt))
        ok == r.returned /\ r.response.message # <<>>
        update == IF ok THEN r.response.business_plan_update ELSE PyNone
        plan1 == IF truthy(update) THEN dict_update(plan, update.v) ELSE plan
        saved == IF truthy(update) THEN save_business_plan(fs, plan1, PyNone, t, "ok")
                 ELSE [files |-> fs, ret |-> <<>>]
        stage1 == IF ok /\ r.response.next_stage # None THEN r.response.next_stage
                  ELSE stage
        chat2 == IF ~r.returned   \* except Exception as e
                 THEN chat
                 ELSE IF r.response.message = <<>>
                 THEN Append(chat1, Message("assistant", EmptyResponse))
                 ELSE Append(chat1, Message("assistant", r.response.message))
        chat_saved == save_chat_history(cfs, chat2, PyNone, t, "ok")
    IN  [current_stage |-> stage1, business_plan |-> plan1, chat_history |-> chat2,
         files |-> saved.files, chat_files |-> chat_saved.files]

\* process_user_input: the session and the files after one submission.  r is the
\* outcome of the process_request call it makes.
process_user_input(stage, plan, chat, fs, cfs, prompt, r, t) ==
    LET chat1 == Append(chat, Message("user", prompt))
        ok == r.returned /\ r.response.message # <<>>
        update == IF ok THEN r.response.business_plan_update ELSE PyNone
        plan1 == IF truthy(update) THEN dict_update(plan, update.v) ELSE plan
        saved == IF truthy(update) THEN save_business_plan(fs, plan1, PyNone, t, "ok")
                 ELSE [files |-> fs, ret |-> <<>>]
        stage1 == IF ok /\ r.response.next_stage # None THEN r.response.next_stage
                  ELSE stage
        chat2 == IF ~r.returned   \* except Exception as e
                 THEN Append(chat, Message("assistant", ErrorPrefix \o r.exc.msg))
                 ELSE IF r.response.message = <<>>
                 THEN Append(chat1, Message("assistant", EmptyResponse))
                 ELSE Append(chat1, Message("assistant", r.response.message))
        chat_saved == save_chat_history(cfs, chat2, PyNone, t, "ok")
    IN  [current_stage |-> stage1, business_plan |-> plan1, chat_history |-> chat2,
         files |-> saved.files, chat_files |-> chat_saved.files]

Init ==
    /\ current_stage = "idea"
    /\ business_plan = EmptyDict
    /\ chat_history = <<>>
    /\ execution_history = <<>>
    /\ logged = <<>>
    /\ req = NoRequest
    /\ now = [minute |-> 0, second |-> 0]
    /\ files = NoFiles
    /\ chat_files = NoFiles
    /\ store = NoStoreCall
    /\ dobby = NoGenerate
    /\ srch = NoSearch

\* One submission in the chat box.  The request is logged and answered at `now`;
\* the next submission comes a second later.
ProcessUserInput ==
    /\ Len(logged) < MaxSubmits
    /\ \E sub \in Submissions :
       \E prompt \in {sub[1]}, solve \in {sub[2]} :
       \E r \in {process_request(execution_history, prompt, current_stage,
                                  business_plan, chat_history, solve, now)} :
       \E s \in {process_user_input(current_stage, business_plan, chat_history,
                                     files, chat_files, prompt, r, now)} :
              /\ execution_history' = r.execution_history
              /\ logged' = Append(logged, r.execution_history[Len(r.execution_history)])
              /\ req' = Request(prompt, current_stage, solve, r)
              /\ current_stage' = s.current_stage
              /\ business_plan' = s.business_plan
              /\ chat_history' = s.chat_history
              /\ files' = s.files
              /\ chat_files' = s.chat_files
              /\ now' = next_second(now)
    /\ UNCHANGED <<store, dobby, srch>>

Next == ProcessUserInput

Spec == Init /\ [][Next]_vars

-----------------------------------------------------------------------------
(* One submission with arbitrary arguments, in a session at any stage *)

InitRequest ==
    /\ current_stage \in {stages[i] : i \in 1..Len(stages)}
    /\ business_plan \in RequestPlans
    /\ chat_history = <<>>
    /\ execution_history = <<>>
    /\ logged = <<>>
    /\ req = NoRequest
    /\ now = [minute |-> 0, second |-> 0]
    /\ files = NoFiles
    /\ chat_files = NoFiles
    /\ store = NoStoreCall
    /\ dobby = NoGenerate
    /\ srch = NoSearch

ProcessRequest ==
    /\ req.solve_calls = 0
    /\ \E user_input \in RequestInputs, solve \in RequestSolves :
       \E r \in {process_request(execution_history, user_input, current_stage,
                                  business_plan, chat_history, solve, now)} :
       \E s \in {process_user_input(current_stage, business_plan, chat_history,
                                     files, chat_files, user_input, r, now)} :
          /\ execution_history' = r.execution_history
          /\ logged' = Append(logged, r.execution_history[Len(r.execution_history)])
          /\ req' = Request(user_input, current_stage, solve, r)
          /\ current_stage' = s.current_stage
          /\ business_plan' = s.business_plan
          /\ chat_history' = s.chat_history
          /\ files' = s.files
          /\ chat_files' = s.chat_files
          /\ now' = next_second(now)
    /\ UNCHANGED <<store, dobby, srch>>

NextRequest == ProcessRequest

SpecRequest == InitRequest /\ [][NextRequest]_vars

-----------------------------------------------------------------------------
(* A long run of log_task and process_request calls on one orchestrator.  Each *)
(* call is given the prompt Hi at stage idea, one second after the call before. *)

LogTask ==
    /\ Len(logged) < MaxLogCalls
    /\ \E h \in {log_task(execution_history, <<"t", "a", "s", "k", "_">> \o strftime_YmdHMS(now),
                           "roma_solver", Hi, "idea", now)} :
          /\ execution_history' = h
          /\ logged' = Append(logged, h[Len(h)])
    /\ now' = next_second(now)
    /\ UNCHANGED <<req, sessionVars, storeVars, dobby, srch>>

ProcessRequestLogged ==
    /\ Len(logged) < MaxLogCalls
    /\ \E solve \in {SolveReturns(PyNone, AnswerResearch, PyNone), SolveRaises(Boom)} :
       \E r \in {process_request(execution_history, Hi, "idea", EmptyDict, <<>>,
                                  solve, now)} :
          /\ execution_history' = r.execution_history
          /\ logged' = Append(logged, r.execution_history[Len(r.execution_history)])
          /\ req' = Request(Hi, "idea", solve, r)
    /\ now' = next_second(now)
    /\ UNCHANGED <<sessionVars, storeVars, dobby, srch>>

NextLog == LogTask \/ ProcessRequestLogged

SpecLog == Init /\ [][NextLog]_vars

-----------------------------------------------------------------------------
(* StateManager calls: saves and loads of plans while the clock advances *)

AcmePlan == [business_name |-> PyStr(<<"A", "c", "m", "e", " ", "C", "o">>), has_market_research |-> PyBool(TRUE)]
AcmePlan2 == [business_name |-> PyStr(<<"A", "C", "M", "E", " ", " ", "c", "o", "!">>), plan_id |-> PyStr(<<"o", "l", "d">>),
              version |-> PyInt(2), next_steps |-> PyList(<<PyStr(<<"h", "i", "r", "e">>), PyNone>>)]
BadPlan == [business_name |-> PyStr(<<"A", "c", "m", "e", " ", "C", "o">>), launch_timeline |-> PyObject("datetime")]

StorePlans == {EmptyDict, AcmePlan, AcmePlan2, BadPlan}
StorePlanIds == {PyNone, PyStr(<<"p", "1">>)}
IoOutcomes == {"ok", "OSError"}

\* a plan passed to save_business_plan: a fixed one, or the one the last load returned
PlansToSave ==
    StorePlans \cup (IF store.op = "load" /\ store.ret.t = "dict" THEN {store.ret.v} ELSE {})

SaveBusinessPlan ==
    /\ store.calls < MaxStoreCalls
    /\ \E plan \in PlansToSave, plan_id \in StorePlanIds, io \in IoOutcomes :
       \E s \in {save_business_plan(files, plan, plan_id, now, io)} :
          /\ files' = s.files
          /\ store' = [op |-> "save", plan |-> plan, plan_id |-> plan_id,
                       ret |-> PyStr(s.ret), calls |-> store.calls + 1]
    /\ UNCHANGED <<chat_files, now, sessionVars, orchVars, dobby, srch>>

LoadBusinessPlan ==
    /\ store.calls < MaxStoreCalls
    /\ \E id \in (DOMAIN files) \cup {<<"p", "1">>} :
          store' = [op |-> "load", plan |-> EmptyDict, plan_id |-> PyStr(id),
                    ret |-> load_business_plan(files, id), calls |-> store.calls + 1]
    /\ UNCHANGED <<files, chat_files, now, sessionVars, orchVars, dobby, srch>>

TickSecond ==
    /\ now.second < MaxSecond
    /\ now' = next_second(now)
    /\ UNCHANGED <<storeVars, sessionVars, orchVars, dobby, srch>>

TickMinute ==
    /\ now.minute < MaxMinute
    /\ now' = next_minute(now)
    /\ UNCHANGED <<storeVars, sessionVars, orchVars, dobby, srch>>

NextStore == SaveBusinessPlan \/ LoadBusinessPlan \/ TickSecond \/ TickMinute

SpecStore == Init /\ [][NextStore]_vars


-----------------------------------------------------------------------------
(* A long session: the prompt Hi is submitted and answered again and again, *)
(* and the chat history is saved after each submission.                     *)

\* AppConfig.max_chat_history: int(os.getenv("MAX_CHAT_HISTORY", "100"))
max_chat_history == 100

MaxChatSubmits == 101   \* submissions in the long session

Resubmit ==
    /\ Len(logged) < MaxChatSubmits
    /\ \E solve \in {SolveReturns(PyNone, <<"o", "k">>, PyNone)} :
       \E r \in {process_request(execution_history, Hi, current_stage,
                                  business_plan, chat_history, solve, now)} :
       \E s \in {process_user_input(current_stage, business_plan, chat_history,
                                     files, chat_files, Hi, r, now)} :
          /\ execution_history' = r.execution_history
          /\ logged' = Append(logged, r.execution_history[Len(r.execution_history)])
          /\ req' = Request(Hi, current_stage, solve, r)
          /\ current_stage' = s.current_stage
          /\ business_plan' = s.business_plan
          /\ chat_history' = s.chat_history
          /\ files' = s.files
          /\ chat_files' = s.chat_files
          /\ now' = next_second(now)
    /\ UNCHANGED <<store, dobby, srch>>

NextChat == Resubmit

SpecChat == Init /\ [][NextChat]_vars

-----------------------------------------------------------------------------
(* Two writers in save_business_plan for the same plan_id.  Each call is three *)
(* steps: the metadata is added, the file is opened with 'w', and json.dump    *)
(* writes the text, after which the call returns the plan_id.                  *)

Writers == {1, 2}
WriterPlanId == <<"p", "1">>
WriterPlans == { EmptyDict, AcmePlan, AcmePlan2, [business_name |-> PyStr(<<"B", "o", "l", "t">>)] }

\* mutant: the file is opened with 'x', which fails when the file exists
open_exclusive(fs, id) ==
    IF id \in DOMAIN fs THEN [raised |-> TRUE, files |-> fs]
    ELSE [raised |-> FALSE, files |-> dict_update(fs, [k \in {id} |-> Corrupt])]

\* open(filepath, 'w', encoding='utf-8'): the file is created or truncated
open_w(fs, id) ==
    [raised |-> FALSE, files |-> dict_update(fs, [k \in {id} |-> Corrupt])]

\* Text is written from the start of a file that holds old.  The file then holds
\* the text alone, or, when old is another and longer text, the text followed
\* by the rest of old, which json.load rejects: whether it can be left mixed.
mixed_after(old, text) ==
    IF old.j = "corrupt" THEN {FALSE} ELSE IF old = text THEN {FALSE} ELSE {FALSE, TRUE}

InitWriters ==
    /\ current_stage = "idea"
    /\ business_plan = EmptyDict
    /\ chat_history = <<>>
    /\ execution_history = <<>>
    /\ logged = <<>>
    /\ req = NoRequest
    /\ now = [minute |-> 0, second |-> 0]
    /\ files = NoFiles
    /\ chat_files = NoFiles
    /\ dobby = NoGenerate
    /\ srch = NoSearch
    /\ store = [op |-> "writers",
                pc |-> [w \in Writers |-> "idle"],
                plan |-> [w \in Writers |-> EmptyDict],
                doc |-> [w \in Writers |-> Corrupt],
                ret |-> [w \in Writers |-> PyNone],
                concurrent |-> FALSE]

\* save_business_plan(plan, plan_id) is called: business_plan_with_metadata.
\* concurrent records that the call began while the other call was under way.
WriterCalls(w) ==
    /\ store.pc[w] = "idle"
    /\ \E plan \in WriterPlans :
          store' = [store EXCEPT !.pc[w] = "called", !.plan[w] = plan,
                       !.doc[w] = json_dump(PyDict(with_metadata(plan, WriterPlanId, now))),
                       !.concurrent = \E v \in Writers : store.pc[v] \in {"called", "open"}]
    /\ UNCHANGED <<files, chat_files, now, sessionVars, orchVars, dobby, srch>>

\* with open(filepath, 'w', encoding='utf-8') as f; an exception returns ""
WriterOpens(w) ==
    /\ store.pc[w] = "called"
    /\ \E f \in {open_w(files, WriterPlanId)} :
          /\ files' = f.files
          /\ store' = IF f.raised
                      THEN [store EXCEPT !.pc[w] = "returned", !.ret[w] = PyStr(<<>>)]
                      ELSE [store EXCEPT !.pc[w] = "open"]
    /\ UNCHANGED <<chat_files, now, sessionVars, orchVars, dobby, srch>>

\* json.dump(...), the file is closed, return plan_id
WriterDumps(w) ==
    /\ store.pc[w] = "open"
    /\ \E mixed \in mixed_after(files[WriterPlanId], store.doc[w]) :
          files' = dict_update(files, [k \in {WriterPlanId} |->
                                          IF mixed THEN Corrupt ELSE store.doc[w]])
    /\ store' = [store EXCEPT !.pc[w] = "returned", !.ret[w] = PyStr(WriterPlanId)]
    /\ UNCHANGED <<chat_files, now, sessionVars, orchVars, dobby, srch>>

NextWriters == \E w \in Writers : WriterCalls(w) \/ WriterOpens(w) \/ WriterDumps(w)

SpecWriters == InitWriters /\ [][NextWriters]_vars
-----------------------------------------------------------------------------
(* The search service on its own *)

Search ==
    /\ srch.op = "none"
    /\ \E query \in SearchQueries, num_results \in SearchNumResults, deep_mode \in BOOLEAN,
          http \in HttpScripts, jina_api_key \in JinaKeys, jina \in JinaOutcomes :
       \E r \in {search(query, num_results, deep_mode, http, jina_api_key, jina)} :
          srch' = [op |-> "search", query |-> query, num_results |-> num_results,
                   deep_mode |-> deep_mode, http |-> http, jina_api_key |-> jina_api_key,
                   jina |-> jina,
                   caught |-> r.caught,
                   raised |-> r.raised, exc |-> r.exc, ret |-> r.ret,
                   serper_calls |-> r.serper_calls,
                   serper_queries |-> r.serper_queries, jina_calls |-> r.jina_calls,
                   ranking |-> r.ranking, was_ranked |-> r.was_ranked,
                   candidates |-> r.candidates, ranked |-> r.ranked]
    /\ UNCHANGED <<sessionVars, orchVars, storeVars, now, dobby>>

NextSearch == Search

SpecSearch == Init /\ [][NextSearch]_vars


-----------------------------------------------------------------------------
(* calculate_text_relevance on its own: a query and a text, then the score *)

RelevanceQueries ==
    { PyStr(<<"r", "e", "d", " ", "s", "h", "o", "e", "s">>), PyStr(<<"R", "e", "d", " ", " ", "S", "H", "O", "E", "S", " ">>), PyStr(<<"x", " ", "y">>), PyStr(<<"s", "h", "o", "e", "s">>),
      PyStr(<<"r", "e", "d", " ", "r", "e", "d", " ", "s", "h", "o", "e", "s">>), PyStr(<<"b", "e", "s", "t", " ", "r", "e", "d", " ", "s", "h", "o", "e", "s">>), PyStr(<<>>), PyStr(<<" ", " ">>) }
RelevanceTexts ==
    { PyStr(<<"r", "e", "d", " ", "s", "h", "o", "e", "s", " ", "f", "o", "r", " ", "s", "a", "l", "e">>), PyStr(<<"S", "h", "o", "e", "s", NL, "R", "E", "D">>), PyStr(<<"r", "e", "d", "s", "h", "o", "e", "s">>),
      PyStr(<<"b", "l", "u", "e", " ", "s", "h", "o", "e", "s">>), PyStr(<<"x">>), PyStr(<<" ">>), PyStr(<<>>), PyNone }

InitRelevance ==
    /\ current_stage = "idea"
    /\ business_plan = EmptyDict
    /\ chat_history = <<>>
    /\ execution_history = <<>>
    /\ logged = <<>>
    /\ req = NoRequest
    /\ now = [minute |-> 0, second |-> 0]
    /\ files = NoFiles
    /\ chat_files = NoFiles
    /\ store = NoStoreCall
    /\ dobby = NoGenerate
    /\ \E query \in RelevanceQueries, text \in RelevanceTexts :
          srch = [op |-> "none", query |-> query, text |-> text, raised |-> FALSE,
                  score |-> Frac(0, 1)]

CalculateTextRelevance ==
    /\ srch.op = "none"
    /\ \E r \in {calculate_text_relevance(srch.query, srch.text)} :
          srch' = [srch EXCEPT !.op = "relevance", !.raised = r.raised,
                               !.score = IF r.raised THEN Frac(0, 1) ELSE r.value]
    /\ UNCHANGED <<sessionVars, orchVars, storeVars, now, dobby>>

NextRelevance == CalculateTextRelevance

SpecRelevance == InitRelevance /\ [][NextRelevance]_vars
-----------------------------------------------------------------------------
(* The Dobby service on its own *)

GenerateResponse ==
    /\ dobby.op = "none"
    /\ \E prompt \in Prompts, history \in Histories, http \in PostOutcomes :
       \E r \in {generate_response(prompt, history, http)} :
          dobby' = [op |-> "generate", prompt |-> prompt, chat_history |-> history,
                    http |-> http, raised |-> r.raised, exc |-> r.exc, ret |-> r.ret,
                    http_calls |-> r.http_calls, messages |-> r.messages,
                    fallback |-> r.fallback, error |-> r.error,
                    tried |-> r.tried]
    /\ UNCHANGED <<sessionVars, orchVars, storeVars, now, srch>>

NextDobby == GenerateResponse

SpecDobby == Init /\ [][NextDobby]_vars


-----------------------------------------------------------------------------
(* _sanitize_response on its own: a response text, then the cleaned text *)

MaxPieces == 3   \* pieces a response text is made of

Pieces == { <<"f", "*", "c", "k">>, <<"a", "s", "s">>, <<"a", "*", "s">>, <<"S", "h", "i", "t", "t", "y">>, <<"!">>, <<" ">>, <<NL>>, <<"x">> }

RECURSIVE Texts(_)
\* the texts made of at most n pieces
Texts(n) ==
    IF n = 0 THEN { <<>> }
    ELSE LET shorter == Texts(n - 1)
         IN  shorter \cup { p \o t : p \in Pieces, t \in shorter }

InitSanitize ==
    /\ current_stage = "idea"
    /\ business_plan = EmptyDict
    /\ chat_history = <<>>
    /\ execution_history = <<>>
    /\ logged = <<>>
    /\ req = NoRequest
    /\ now = [minute |-> 0, second |-> 0]
    /\ files = NoFiles
    /\ chat_files = NoFiles
    /\ store = NoStoreCall
    /\ srch = NoSearch
    /\ \E response \in Texts(MaxPieces) :
          dobby = [op |-> "none", response |-> response, ret |-> <<>>]

SanitizeResponse ==
    /\ dobby.op = "none"
    /\ dobby' = [dobby EXCEPT !.op = "sanitize", !.ret = _sanitize_response(dobby.response)]
    /\ UNCHANGED <<sessionVars, orchVars, storeVars, now, srch>>

NextSanitize == SanitizeResponse

SpecSanitize == InitSanitize /\ [][NextSanitize]_vars

-----------------------------------------------------------------------------
(* The two services side by side: one generate_response call and one search    *)
(* call, in either order, with requests that fail and requests that succeed    *)

CallPrompts == { <<"h", "e", "l", "l", "o">> }
CallHistories == { PyNone, LongHistory(2) }
CallQueries == { PyStr(<<"r", "e", "d", " ", "s", "h", "o", "e", "s">>), PyStr(<<"m", "y", " ", "s", "t", "a", "r", "t", "u", "p">>) }
CallNumResults == 5

GenerateResponseCall ==
    /\ dobby.op = "none"
    /\ \E prompt \in CallPrompts, history \in CallHistories, http \in PostOutcomes :
       \E r \in {generate_response(prompt, history, http)} :
          dobby' = [op |-> "generate", prompt |-> prompt, chat_history |-> history,
                    http |-> http, raised |-> r.raised, exc |-> r.exc, ret |-> r.ret,
                    http_calls |-> r.http_calls, messages |-> r.messages,
                    fallback |-> r.fallback, error |-> r.error,
                    tried |-> r.tried]
    /\ UNCHANGED <<sessionVars, orchVars, storeVars, now, srch>>

SearchCall ==
    /\ srch.op = "none"
    /\ \E query \in CallQueries, deep_mode \in BOOLEAN, http \in HttpScripts,
          jina_api_key \in JinaKeys, jina \in JinaOutcomes :
       \E r \in {search(query, CallNumResults, deep_mode, http, jina_api_key, jina)} :
          srch' = [op |-> "search", query |-> query, num_results |-> CallNumResults,
                   deep_mode |-> deep_mode, http |-> http, jina_api_key |-> jina_api_key,
                   jina |-> jina,
                   caught |-> r.caught,
                   raised |-> r.raised, exc |-> r.exc, ret |-> r.ret,
                   serper_calls |-> r.serper_calls,
                   serper_queries |-> r.serper_queries, jina_calls |-> r.jina_calls,
                   ranking |-> r.ranking, was_ranked |-> r.was_ranked,
                   candidates |-> r.candidates, ranked |-> r.ranked]
    /\ UNCHANGED <<sessionVars, orchVars, storeVars, now, dobby>>

NextCalls == GenerateResponseCall \/ SearchCall

SpecCalls == Init /\ [][NextCalls]_vars

-----------------------------------------------------------------------------
(* Config: src/utils/config.py.  A float is kept as the fraction num / den;   *)
(* den = 0 stands for nan (num = 0) and for inf (num = 1).                     *)

PyFloat(f) == [t |-> "float", v |-> f]
NaN == Frac(0, 0)
Inf == Frac(1, 0)

MinTokens == 100
MaxTokens == 8192

RECURSIVE digits_value(_, _)
\* the number a run of decimal digits writes, after the digits read so far
digits_value(s, n) ==
    IF s = <<>> THEN n
    ELSE digits_value(Tail(s), 10 * n + (CHOOSE d \in 0..9 : Digits[d + 1] = Head(s)))

all_digits(s) == s # <<>> /\ \A i \in 1..Len(s) : \E d \in 1..10 : Digits[d] = s[i]

RECURSIVE power_of_ten(_)
power_of_ten(n) == IF n = 0 THEN 1 ELSE 10 * power_of_ten(n - 1)

\* int(x): a str is stripped and read as an optionally signed run of digits, a
\* float is cut towards zero
py_int(x) ==
    CASE x.t = "int" -> Returned(x.v)
      [] x.t = "bool" -> Returned(IF x.v THEN 1 ELSE 0)
      [] x.t = "float" ->
            IF x.v.den = 0
            THEN IF x.v.num = 0
                 THEN Raised("ValueError", <<"c", "a", "n", "n", "o", "t", " ", "c", "o", "n", "v", "e", "r", "t", " ", "f", "l", "o", "a", "t", " ", "N", "a", "N", " ", "t", "o", " ", "i", "n", "t", "e", "g", "e", "r">>)
                 ELSE Raised("OverflowError", <<"c", "a", "n", "n", "o", "t", " ", "c", "o", "n", "v", "e", "r", "t", " ", "f", "l", "o", "a", "t", " ", "i", "n", "f", "i", "n", "i", "t", "y", " ", "t", "o", " ", "i", "n", "t", "e", "g", "e", "r">>)
            ELSE Returned(IF x.v.num >= 0 THEN x.v.num \div x.v.den
                          ELSE -((-x.v.num) \div x.v.den))
      [] x.t = "str" ->
            LET read(s) ==
                    LET negative == s # <<>> /\ Head(s) = "-"
                        body == IF s # <<>> /\ Head(s) \in {"-", "+"} THEN Tail(s) ELSE s
                    IN  IF all_digits(body)
                        THEN Returned(IF negative THEN -digits_value(body, 0)
                                      ELSE digits_value(body, 0))
                        ELSE Raised("ValueError", <<"i", "n", "v", "a", "l", "i", "d", " ", "l", "i", "t", "e", "r", "a", "l", " ", "f", "o", "r", " ", "i", "n", "t", "(", ")">>)
            IN  read(strip(x.v))
      [] OTHER -> Raised("TypeError", <<"i", "n", "t", "(", ")", " ", "a", "r", "g", "u", "m", "e", "n", "t", " ", "m", "u", "s", "t", " ", "b", "e", " ", "a", " ", "s", "t", "r", "i", "n", "g", " ", "o", "r", " ", "a", " ", "n", "u", "m", "b", "e", "r">>)

\* float(x): a str is stripped and read as an optionally signed decimal number
\* or as nan
py_float(x) ==
    CASE x.t = "int" -> Returned(Frac(x.v, 1))
      [] x.t = "bool" -> Returned(Frac(IF x.v THEN 1 ELSE 0, 1))
      [] x.t = "float" -> Returned(x.v)
      [] x.t = "str" ->
            LET read(s) ==
                    LET negative == s # <<>> /\ Head(s) = "-"
                        body == IF s # <<>> /\ Head(s) \in {"-", "+"} THEN Tail(s) ELSE s
                        dots == {i \in 1..Len(body) : body[i] = "."}
                        signed(n) == IF negative THEN -n ELSE n
                        decimal(whole, part) ==
                            IF (whole = <<>> \/ all_digits(whole))
                                 /\ (part = <<>> \/ all_digits(part))
                                 /\ whole \o part # <<>>
                            THEN Returned(Frac(signed(digits_value(whole \o part, 0)),
                                               power_of_ten(Len(part))))
                            ELSE Raised("ValueError", <<"c", "o", "u", "l", "d", " ", "n", "o", "t", " ", "c", "o", "n", "v", "e", "r", "t", " ", "s", "t", "r", "i", "n", "g", " ", "t", "o", " ", "f", "l", "o", "a", "t">>)
                    IN  IF lower(body) = <<"n", "a", "n">> THEN Returned(NaN)
                        ELSE IF Cardinality(dots) > 1
                        THEN Raised("ValueError", <<"c", "o", "u", "l", "d", " ", "n", "o", "t", " ", "c", "o", "n", "v", "e", "r", "t", " ", "s", "t", "r", "i", "n", "g", " ", "t", "o", " ", "f", "l", "o", "a", "t">>)
                        ELSE IF dots = {} THEN decimal(body, <<>>)
                        ELSE LET at == CHOOSE i \in dots : TRUE
                             IN  decimal(SubSeq(body, 1, at - 1),
                                         SubSeq(body, at + 1, Len(body)))
            IN  read(strip(x.v))
      [] OTHER -> Raised("TypeError", <<"f", "l", "o", "a", "t", "(", ")", " ", "a", "r", "g", "u", "m", "e", "n", "t", " ", "m", "u", "s", "t", " ", "b", "e", " ", "a", " ", "s", "t", "r", "i", "n", "g", " ", "o", "r", " ", "a", " ", "n", "u", "m", "b", "e", "r">>)

\* a <= f <= b for a float f and integers a and b; every comparison with nan is
\* false
float_between(a, f, b) ==
    IF f.den = 0 THEN FALSE ELSE a * f.den <= f.num /\ f.num <= b * f.den

\* _validate_config: the errors kept in _config_errors
_validate_config(cfg) ==
    (IF ~float_between(0, cfg.default_temperature, 2)
     THEN <<<<"D", "E", "F", "A", "U", "L", "T", "_", "T", "E", "M", "P", "E", "R", "A", "T", "U", "R", "E", " ", "m", "u", "s", "t", " ", "b", "e", " ", "b", "e", "t", "w", "e", "e", "n", " ", "0", " ", "a", "n", "d", " ", "2">>>> ELSE <<>>)
    \o (IF cfg.max_tokens < MinTokens \/ cfg.max_tokens > MaxTokens
        THEN <<<<"M", "A", "X", "_", "T", "O", "K", "E", "N", "S", " ", "m", "u", "s", "t", " ", "b", "e", " ", "b", "e", "t", "w", "e", "e", "n", " ", "1", "0", "0", " ", "a", "n", "d", " ", "8", "1", "9", "2">>>> ELSE <<>>)

\* the outcome of an update_runtime_config call: the settings after it and the
\* dictionary returned, or the exception a conversion raised
ConfigUpdated(cfg, valid_updates) ==
    [raised |-> FALSE, exc |-> NoException, config |-> cfg, ret |-> valid_updates]
ConfigRaised(cfg, exc) ==
    [raised |-> TRUE, exc |-> exc, config |-> cfg, ret |-> EmptyDict]

\* mutant: max_tokens is checked against the lower limit only
update_runtime_config_no_upper_limit(cfg, kwargs) ==
    LET debug(cfg2, updates) ==
            IF "debug_mode" \in DOMAIN kwargs
            THEN ConfigUpdated([cfg2 EXCEPT !.debug_mode = truthy(kwargs.debug_mode)],
                     dict_update(updates,
                                 [debug_mode |-> PyBool(truthy(kwargs.debug_mode))]))
            ELSE ConfigUpdated(cfg2, updates)
        tokens_read(cfg1, updates, tokens) ==
            IF tokens.raised THEN ConfigRaised(cfg1, tokens.exc)
            ELSE IF MinTokens <= tokens.value
            THEN debug([cfg1 EXCEPT !.max_tokens = tokens.value],
                       dict_update(updates, [max_tokens |-> PyInt(tokens.value)]))
            ELSE debug(cfg1, updates)
        max_tokens(cfg1, updates) ==
            IF "max_tokens" \in DOMAIN kwargs
            THEN tokens_read(cfg1, updates, py_int(kwargs.max_tokens))
            ELSE debug(cfg1, updates)
        temp_read(temp) ==
            IF temp.raised THEN ConfigRaised(cfg, temp.exc)
            ELSE IF float_between(0, temp.value, 2)
            THEN max_tokens([cfg EXCEPT !.default_temperature = temp.value],
                            [temperature |-> PyFloat(temp.value)])
            ELSE max_tokens(cfg, EmptyDict)
    IN  IF "temperature" \in DOMAIN kwargs THEN temp_read(py_float(kwargs.temperature))
        ELSE max_tokens(cfg, EmptyDict)

\* update_runtime_config(**kwargs)
update_runtime_config(cfg, kwargs) ==
    LET debug(cfg2, updates) ==
            IF "debug_mode" \in DOMAIN kwargs
            THEN ConfigUpdated([cfg2 EXCEPT !.debug_mode = truthy(kwargs.debug_mode)],
                     dict_update(updates,
                                 [debug_mode |-> PyBool(truthy(kwargs.debug_mode))]))
            ELSE ConfigUpdated(cfg2, updates)
        tokens_read(cfg1, updates, tokens) ==
            IF tokens.raised THEN ConfigRaised(cfg1, tokens.exc)
            ELSE IF MinTokens <= tokens.value /\ tokens.value <= MaxTokens
            THEN debug([cfg1 EXCEPT !.max_tokens = tokens.value],
                       dict_update(updates, [max_tokens |-> PyInt(tokens.value)]))
            ELSE debug(cfg1, updates)
        max_tokens(cfg1, updates) ==
            IF "max_tokens" \in DOMAIN kwargs
            THEN tokens_read(cfg1, updates, py_int(kwargs.max_tokens))
            ELSE debug(cfg1, updates)
        temp_read(temp) ==
            IF temp.raised THEN ConfigRaised(cfg, temp.exc)
            ELSE IF float_between(0, temp.value, 2)
            THEN max_tokens([cfg EXCEPT !.default_temperature = temp.value],
                            [temperature |-> PyFloat(temp.value)])
            ELSE max_tokens(cfg, EmptyDict)
    IN  IF "temperature" \in DOMAIN kwargs THEN temp_read(py_float(kwargs.temperature))
        ELSE max_tokens(cfg, EmptyDict)

\* the values of DEFAULT_TEMPERATURE and MAX_TOKENS in the environment
EnvTemperatures == { <<"0", ".", "6">>, <<"-", "1">> }
EnvMaxTokens == { <<"1", "0", "0">>, <<"9", "0", "0", "0">> }

\* the keyword arguments of an update_runtime_config call
KwTemperatures ==
    { PyFloat(Frac(3, 2)), PyFloat(Frac(5, 2)), PyFloat(NaN), PyStr(<<" ", "0", ".", "7">>),
      PyStr(<<"h", "o", "t">>) }
KwMaxTokens ==
    { PyInt(8192), PyInt(8193), PyInt(99), PyStr(<<" ", "5", "1", "2", " ">>), PyStr(<<"4", ".", "5">>),
      PyFloat(Frac(16385, 2)), PyFloat(Inf) }
KwDebugModes == { PyBool(TRUE) }
Kwargs ==
    LET with(base, key, values) ==
            base \cup { dict_update(b, [k \in {key} |-> v]) : b \in base, v \in values }
    IN  with(with(with({EmptyDict}, "temperature", KwTemperatures),
                  "max_tokens", KwMaxTokens),
             "debug_mode", KwDebugModes)

\* Config(): the settings are read from the environment and validated.  The
\* settings as constructed and as they were before the last call are kept.
InitConfig ==
    /\ current_stage = "idea"
    /\ business_plan = EmptyDict
    /\ chat_history = <<>>
    /\ execution_history = <<>>
    /\ logged = <<>>
    /\ req = NoRequest
    /\ now = [minute |-> 0, second |-> 0]
    /\ files = NoFiles
    /\ chat_files = NoFiles
    /\ dobby = NoGenerate
    /\ srch = NoSearch
    /\ \E temperature \in EnvTemperatures, tokens \in EnvMaxTokens :
       \E cfg \in {[default_temperature |-> py_float(PyStr(temperature)).value,
                    max_tokens |-> py_int(PyStr(tokens)).value,
                    debug_mode |-> FALSE]} :
          store = [op |-> "config", config |-> cfg,
                   config_errors |-> _validate_config(cfg),
                   constructed |-> cfg, before |-> cfg, called |-> FALSE, kwargs |-> EmptyDict, raised |-> FALSE,
                   exc |-> NoException, ret |-> EmptyDict]

UpdateRuntimeConfig ==
    /\ \E kwargs \in Kwargs :
       \E r \in {update_runtime_config(store.config, kwargs)} :
          store' = [store EXCEPT !.config = r.config, !.before = store.config, !.called = TRUE,
                                 !.kwargs = kwargs,
                                 !.raised = r.raised, !.exc = r.exc, !.ret = r.ret]
    /\ UNCHANGED <<files, chat_files, now, sessionVars, orchVars, dobby, srch>>

NextConfig == UpdateRuntimeConfig

SpecConfig == InitConfig /\ [][NextConfig]_vars
-----------------------------------------------------------------------------
(* Properties *)

FiveStages == <<"idea", "research", "planning", "costing", "launch">>

StageNumber(stage) == CHOOSE i \in 1..5 : FiveStages[i] = stage

\* C1: within a session the index of current_stage in [idea, research, planning,
\* costing, launch] never decreases over the submissions process_user_input handles.
C1_StageNeverMovesBack ==
    [][/\ current_stage' \in {FiveStages[i] : i \in 1..5}
       /\ StageNumber(current_stage') >= StageNumber(current_stage)]_vars

\* a submission moved the session from costing to launch
C1_Witness == req.stage = "costing" /\ req.returned /\ current_stage = "launch"

\* C2: for a non-terminal stage _determine_next_stage returns the following stage
\* when a keyword of that stage occurs in lower(user_input + " " + answer), and the
\* current stage otherwise; idea with "market research" gives research.
C2_NextStageIsKeywordStep ==
    /\ _determine_next_stage("idea", <<"x">>, <<"m", "a", "r", "k", "e", "t", " ", "r", "e", "s", "e", "a", "r", "c", "h">>) = "research"
    /\ (req.returned /\ req.stage # "launch") =>
          LET text == lower(req.user_input \o <<" ">> \o req.response.message)
              keywords == progression_keywords[req.stage]
              occurs == \E k \in 1..Len(keywords) : contains(keywords[k], text)
          IN  /\ occurs => req.determined = FiveStages[StageNumber(req.stage) + 1]
              /\ ~occurs => req.determined = req.stage

\* an upper-case keyword of the stage idea in the user input advanced the stage
C2_Witness ==
    /\ req.returned /\ req.stage = "idea" /\ req.determined = "research"
    /\ req.user_input = <<"d", "o", " ", "M", "A", "R", "K", "E", "T", " ", "r", "e", "s", "e", "a", "r", "c", "h">>
    /\ req.response.message = <<"o", "k">>

\* C3: process_request with current_stage = launch returns next_stage = None for
\* every user input and answer, and a session at launch stays at launch.
C3_LaunchNeverAdvances ==
    (req.solve_calls > 0 /\ req.stage = "launch") =>
        /\ req.returned => req.response.next_stage = None
        /\ current_stage = "launch"

\* a submission at launch whose text holds keywords of the stage before
C3_Witness ==
    /\ req.returned /\ req.stage = "launch"
    /\ req.user_input = <<"R", "e", "l", "a", "u", "n", "c", "h">>
    /\ contains(<<"r", "e", "g", "i", "s", "t", "e", "r">>, lower(req.response.message))
    /\ current_stage = "launch"

\* C4: the current stage is always one of the five fixed values, and so is every
\* next_stage the orchestrator returns.
C4_StageIsOneOfFive ==
    /\ current_stage \in {"idea", "research", "planning", "costing", "launch"}
    /\ (req.returned /\ req.response.next_stage # None) =>
          req.response.next_stage \in {"idea", "research", "planning", "costing", "launch"}

\* the orchestrator returned launch as next_stage and the session took it
C4_Witness == req.returned /\ req.response.next_stage = "launch" /\ current_stage = "launch"

\* C9: when solve raises, process_request raises the same exception: it returns no
\* dictionary, runs neither extraction nor stage determination, and called solve once.
C9_SolverExceptionPropagates ==
    (req.solve_calls > 0 /\ req.solve_raises) =>
        /\ req.raised /\ req.exc = Boom
        /\ ~req.returned
        /\ req.extract_calls = 0 /\ req.determine_calls = 0
        /\ req.solve_calls = 1

\* a process_request call whose solver raised
C9_Witness == req.solve_raises /\ req.raised /\ req.solve_calls = 1

\* C8: the execution log never holds more than 100 entries, and it holds the most
\* recent min(n, 100) of the n entries logged, in the order they were logged.
C8_LogKeepsLast100 ==
    LET n == Len(logged)
        kept == IF n < 100 THEN n ELSE 100
    IN  /\ Len(execution_history) <= 100
        /\ Len(execution_history) = kept
        /\ \A i \in 1..kept : execution_history[i] = logged[n - kept + i]

\* more than 100 calls were logged and the log holds 100 entries
C8_Witness == Len(logged) > 100 /\ Len(execution_history) = 100 /\ req.raised

\* C10: when save_business_plan(p) returns a non-empty plan_id, load_business_plan of
\* that id returns a dict holding every key of p with p's value, and the keys
\* plan_id, created_at, last_updated and version.
C10_SaveLoadRoundTrip ==
    (store.op = "save" /\ store.ret.v # <<>>) =>
        LET loaded == load_business_plan(files, store.ret.v)
        IN  /\ loaded.t = "dict"
            /\ \A k \in DOMAIN store.plan :
                  k \in DOMAIN loaded.v /\ py_eq(loaded.v[k], store.plan[k])
            /\ {"plan_id", "created_at", "last_updated", "version"} \subseteq DOMAIN loaded.v

\* a plan that was loaded is saved again, under a generated id, a minute later
C10_Witness ==
    /\ store.op = "save" /\ store.ret.v # <<>> /\ store.plan_id.t = "NoneType"
    /\ "last_updated" \in DOMAIN store.plan
    /\ store.plan["last_updated"].v # isoformat(now)
    /\ load_business_plan(files, store.ret.v).t = "dict"


\* C5: generate_response never raises and returns text, whatever the prompt, the
\* chat history and the outcome of the HTTP call; whenever the try block raised
\* (timeout, connection error, a body of the wrong shape, anything else) or the
\* status was not 200, what it returns is the fallback text for the prompt.
C5_GenerateResponseReturnsText ==
    dobby.op = "generate" =>
        /\ ~dobby.raised
        /\ dobby.ret \in Seq(STRING)
        /\ (dobby.tried # NoException \/ (dobby.http.kind = "answer" /\ dobby.http.code # 200))
              => /\ dobby.fallback
                 /\ dobby.ret = generate_fallback_response(dobby.prompt, dobby.error)
        /\ (dobby.tried = NoException /\ dobby.http.kind = "answer" /\ dobby.http.code = 200)
              => /\ ~dobby.fallback
                 /\ dobby.ret = _sanitize_response(raw_response(dobby.http.body).value)

\* the service answered 200 with a body whose content is null: the
\* AttributeError of .strip() ended in the fallback text
C5_Witness ==
    /\ dobby.op = "generate"
    /\ dobby.http.kind = "answer"
    /\ dobby.http.code = 200
    /\ dobby.tried.type = "AttributeError"
    /\ dobby.fallback
    /\ Len(dobby.ret) > 0

\* the query variants a search call sends to the provider
SearchedVariants ==
    IF srch.deep_mode THEN rephrase_query(srch.query).value ELSE <<srch.query>>

\* the provider calls a search call made all failed with a RequestException
EveryProviderCallFailed ==
    /\ srch.serper_calls >= 1
    /\ \A i \in 1..srch.serper_calls : srch.http[i].kind = "RequestException"

\* C6: search never raises; when anything inside it raised (query expansion,
\* provider search, formatting, ranking or synthesis), the call returns a result
\* that carries an "error" entry, the text of the exception, and a "results" text
\* that begins "Search service temporarily unavailable. Error: ".
C6_SearchNeverRaises ==
    srch.op = "search" =>
        /\ ~srch.raised
        /\ "results" \in DOMAIN srch.ret
        /\ srch.caught =>
              /\ "error" \in DOMAIN srch.ret
              /\ srch.ret.error \in Seq(STRING)
              /\ srch.ret.results =
                    <<"S", "e", "a", "r", "c", "h", " ", "s", "e", "r", "v", "i", "c", "e", " ", "t", "e", "m", "p", "o", "r", "a", "r", "i", "l", "y", " ", "u", "n", "a", "v", "a", "i", "l", "a", "b", "l", "e", ".", " ", "E", "r", "r", "o", "r", ":", " ">> \o srch.ret.error
              /\ srch.ret.query = srch.query

\* an exception raised after the provider answered (a result that is no
\* dictionary, or a snippet that is no text) was caught
C6_Witness ==
    /\ srch.op = "search"
    /\ srch.caught
    /\ srch.serper_calls = 3
    /\ srch.http[1].kind = "json"
    /\ "error" \in DOMAIN srch.ret

\* C7: when a provider call fails with a RequestException (the request raises or
\* the status is an error), serper_search raises nothing and returns exactly
\* one placeholder result whose title embeds the query; a search whose provider
\* calls all failed returns "sources" and an answer written by synthesize_answer,
\* with no "error" entry and not the "No search results found" result.
C7_PlaceholderOnProviderFailure ==
    srch.op = "search" =>
        /\ \A i \in 1..srch.serper_calls :
              srch.http[i].kind = "RequestException" =>
                 LET q == SearchedVariants[i]
                     r == serper_search(q, srch.num_results, srch.http[i])
                 IN  /\ ~r.raised
                     /\ r.value.t = "dict"
                     /\ DOMAIN r.value.v = {"organic"}
                     /\ r.value.v["organic"].t = "list"
                     /\ Len(r.value.v["organic"].v) = 1
                     /\ contains(py_str(q), r.value.v["organic"].v[1].v["title"].v)
        /\ EveryProviderCallFailed =>
              /\ ~srch.raised
              /\ ~srch.caught
              /\ "error" \notin DOMAIN srch.ret
              /\ "sources" \in DOMAIN srch.ret
              /\ srch.ret.results # <<"N", "o", " ", "s", "e", "a", "r", "c", "h", " ", "r", "e", "s", "u", "l", "t", "s", " ", "f", "o", "u", "n", "d">>
              /\ srch.ret.total_found = srch.serper_calls
              /\ (srch.ranking = "local" /\ srch.num_results >= 1) =>
                    /\ Len(srch.ret.sources) >= 1
                    /\ \A k \in 1..Len(srch.ret.sources) :
                          contains(<<"S", "e", "a", "r", "c", "h", " ", "r", "e", "s", "u", "l", "t", " ", "f", "o", "r", ":", " ">>, srch.ret.sources[k].title.v)
                    /\ prefix(srch.ret.results, 29) = <<"B", "a", "s", "e", "d", " ", "o", "n", " ", "c", "u", "r", "r", "e", "n", "t", " ", "i", "n", "f", "o", "r", "m", "a", "t", "i", "o", "n", " ">>

\* three variants were searched, every call failed, and sources came back
C7_Witness ==
    /\ srch.op = "search"
    /\ srch.deep_mode
    /\ srch.serper_calls = 3
    /\ EveryProviderCallFailed
    /\ "sources" \in DOMAIN srch.ret
    /\ Len(srch.ret.sources) = 3

\* C11: the chat history written to storage is the last max_chat_history
\* messages of the session's chat history, so it never holds more than
\* max_chat_history messages.
C11_StoredChatTruncated ==
    \A id \in DOMAIN chat_files :
        /\ Len(chat_files[id].chat_history) <= max_chat_history
        /\ chat_files[id].chat_history = last_n(chat_history, max_chat_history)

\* the history list a generate_response call was given (None and [] give no turns)
GivenHistory == IF truthy(dobby.chat_history) THEN dobby.chat_history.v ELSE <<>>

\* C12: the message list a generate_response call sends is one system message,
\* then the last min(len(history), 10) history messages in their order, then the
\* prompt as the final user message: 2 + min(len(history), 10) messages, none of
\* them a history message older than the last 10.
C12_MessagesAreSystemWindowPrompt ==
    dobby.http_calls = 1 =>
        LET h == GivenHistory
            n == IF Len(h) < 10 THEN Len(h) ELSE 10
            sent == dobby.messages
        IN  /\ Len(sent) = 2 + n
            /\ sent[1] = [role |-> PyStr(<<"s", "y", "s", "t", "e", "m">>), content |-> SystemPrompt]
            /\ \A i \in 1..n :
                  /\ sent[1 + i].role = h[Len(h) - n + i].v.role
                  /\ sent[1 + i].content = h[Len(h) - n + i].v.content
            /\ sent[Len(sent)] = [role |-> PyStr(<<"u", "s", "e", "r">>), content |-> PyStr(dobby.prompt)]
            /\ \A i \in 1..(Len(h) - n) : \A j \in 2..(Len(sent) - 1) :
                  sent[j].content # h[i].v.content

\* a request was sent with a history of more than ten turns
C12_Witness ==
    /\ dobby.http_calls = 1
    /\ Len(GivenHistory) > 10
    /\ Len(dobby.messages) = 12

\* the rules of the fallback in their order, each by the words it looks for, and
\* the heading of the template each one selects (the fifth is the generic one)
FallbackRules ==
    << {<<"b", "u", "s", "i", "n", "e", "s", "s", " ", "p", "l", "a", "n">>, <<"c", "o", "m", "p", "r", "e", "h", "e", "n", "s", "i", "v", "e">>}, {<<"c", "o", "s", "t">>, <<"f", "i", "n", "a", "n", "c", "i", "a", "l">>, <<"b", "u", "d", "g", "e", "t">>},
       {<<"l", "a", "u", "n", "c", "h">>, <<"r", "e", "g", "i", "s", "t", "e", "r">>}, {<<"m", "a", "r", "k", "e", "t", "i", "n", "g">>} >>
FallbackHeadings ==
    << <<"*", "*", "B", "u", "s", "i", "n", "e", "s", "s", " ", "P", "l", "a", "n", " ", "F", "r", "a", "m", "e", "w", "o", "r", "k", "*", "*">>, <<"*", "*", "F", "i", "n", "a", "n", "c", "i", "a", "l", " ", "P", "l", "a", "n", "n", "i", "n", "g", " ", "G", "u", "i", "d", "e", "l", "i", "n", "e", "s", "*", "*">>,
       <<"*", "*", "B", "u", "s", "i", "n", "e", "s", "s", " ", "L", "a", "u", "n", "c", "h", " ", "C", "h", "e", "c", "k", "l", "i", "s", "t", "*", "*">>, <<"*", "*", "M", "a", "r", "k", "e", "t", "i", "n", "g", " ", "S", "t", "r", "a", "t", "e", "g", "y", " ", "F", "r", "a", "m", "e", "w", "o", "r", "k", "*", "*">>,
       <<"*", "*", "B", "u", "s", "i", "n", "e", "s", "s", " ", "A", "d", "v", "i", "s", "o", "r", "y", " ", "R", "e", "s", "p", "o", "n", "s", "e", "*", "*">> >>
RuleMatches(i, prompt) == \E k \in FallbackRules[i] : contains(k, lower(prompt))
\* the first rule the prompt matches, 5 when it matches none
FirstRule(prompt) ==
    IF \E i \in 1..4 : RuleMatches(i, prompt)
    THEN CHOOSE i \in 1..4 : RuleMatches(i, prompt) /\ \A j \in 1..(i - 1) : ~RuleMatches(j, prompt)
    ELSE 5
\* the templates whose heading a text holds
TemplatesIn(text) == {i \in 1..5 : contains(FallbackHeadings[i], text)}

\* C13: the fallback template is a function of the prompt alone: whatever the
\* error, a failing call returns the template of the first rule its prompt
\* matches in the order business plan, financial, launch, marketing, generic.
C13_TemplateIsFirstMatchingRule ==
    dobby.fallback => TemplatesIn(dobby.ret) = {FirstRule(dobby.prompt)}

\* a failing call whose prompt matches several rules
C13_Witness ==
    /\ dobby.fallback
    /\ Cardinality({i \in 1..4 : RuleMatches(i, dobby.prompt)}) > 1
    /\ dobby.error # <<>>

\* C14: whenever generate_response falls back, the text it returns carries the
\* error description, whichever template is selected.
C14_FallbackCarriesError ==
    dobby.fallback => contains(dobby.error, dobby.ret)

\* s is t or the first part of t
IsPrefix(s, t) == Len(s) <= Len(t) /\ s = SubSeq(t, 1, Len(s))

\* C15: query expansion happens only in deep mode and is capped at three
\* variants.  Without deep mode a search of a text query makes exactly one
\* provider call, for the query itself; in deep mode it makes one provider call
\* per variant in their order (up to the call that ends the search, if one
\* raises), between 1 and 3 in all, and the first is for the query itself.
C15_ExpansionOnlyInDeepMode ==
    (srch.op = "search" /\ srch.query.t = "str") =>
        /\ Len(srch.serper_queries) = srch.serper_calls
        /\ srch.serper_calls \in 1..3
        /\ srch.serper_queries[1] = srch.query
        /\ ~srch.deep_mode => srch.serper_queries = <<srch.query>>
        /\ srch.deep_mode =>
              /\ IsPrefix(srch.serper_queries, rephrase_query(srch.query).value)
              /\ ~srch.caught => srch.serper_queries = rephrase_query(srch.query).value
              /\ "rephrased_queries" \in DOMAIN srch.ret =>
                    srch.serper_queries = srch.ret.rephrased_queries
        /\ \A i, j \in 1..Len(srch.serper_queries) :
              srch.serper_queries[i] = srch.serper_queries[j] => i = j

\* a deep search of a query with four possible variants made three provider calls
C15_Witness ==
    /\ srch.op = "search"
    /\ srch.deep_mode
    /\ srch.query = PyStr(<<"m", "y", " ", "s", "t", "a", "r", "t", "u", "p">>)
    /\ srch.serper_calls = 3
    /\ ~srch.caught

\* the search went through its ranking step and returned the ranked sources
ReturnedRanking == srch.op = "search" /\ "sources" \in DOMAIN srch.ret
KeyConfigured == srch.jina_api_key # <<>>
RerankerFailed == srch.jina.kind # "answer" \/ srch.jina.code # 200

\* 0.6 * title overlap + 0.4 * snippet overlap of a source whose texts are str or None
LocalScore(source) ==
    LET t == calculate_text_relevance(srch.query, source.title).value
        s == calculate_text_relevance(srch.query, source.snippet).value
    IN  Frac(6 * t.num * s.den + 4 * s.num * t.den, 10 * t.den * s.den)
\* calculate_text_relevance raises on a text that is not empty when the query or
\* the text is no str: local scoring then stops at the first such candidate
Unscorable(text) == truthy(text) /\ (srch.query.t # "str" \/ text.t # "str")
ScoringRaises ==
    \E i \in 1..Len(srch.candidates) :
        Unscorable(srch.candidates[i].title) \/ Unscorable(srch.candidates[i].snippet)
\* a list of results without their scores
Unscored(results) ==
    [i \in 1..Len(results) |-> [results[i] EXCEPT !.relevance_score = Frac(0, 1)]]
\* the sources are the first candidates, in the order the provider gave them
InOriginalOrder(sources) ==
    /\ Len(sources) <= Len(srch.candidates)
    /\ Unscored(sources) = Unscored(SubSeq(srch.candidates, 1, Len(sources)))
\* each score is at least the next one
Descending(sources) ==
    \A i \in 1..(Len(sources) - 1) :
        frac_ge(sources[i].relevance_score, sources[i + 1].relevance_score)
\* the sources are in the order of the local score, each holding its score; when
\* local scoring raised they are in the order the provider gave them
IsLocalRanking(sources) ==
    IF ScoringRaises THEN InOriginalOrder(sources)
    ELSE /\ \A i \in 1..Len(sources) :
                frac_eq(sources[i].relevance_score, LocalScore(sources[i]))
         /\ Descending(sources)

\* C16 as stated: the hosted reranker is called exactly when deep_mode is set
\* and a reranking API key is configured; in every other case, and whenever the
\* reranker answers with a non-200 status or the call raises, the returned
\* ranking is the local word-overlap one.
C16_RerankerIffDeepAndKey ==
    ReturnedRanking =>
        /\ srch.jina_calls = 1 <=> (srch.deep_mode /\ KeyConfigured)
        /\ (~(srch.deep_mode /\ KeyConfigured) \/ RerankerFailed)
              => IsLocalRanking(srch.ret.sources)

\* C16, amended: the hosted reranker is called exactly when deep_mode is set, a
\* reranking API key is configured and there is more than one result to rank;
\* in every other case, and whenever the reranker answers with a non-200 status
\* or the call raises, the returned ranking is the local word-overlap one.
C16_RerankerIffDeepKeyAndSeveral ==
    /\ srch.jina_calls \in {0, 1}
    /\ srch.jina_calls = 1 => (srch.deep_mode /\ KeyConfigured /\ srch.serper_calls >= 1)
    /\ ReturnedRanking =>
        /\ srch.jina_calls = 1
              <=> (srch.deep_mode /\ KeyConfigured /\ srch.ret.total_found > 1)
        /\ (~(srch.deep_mode /\ KeyConfigured /\ srch.ret.total_found > 1)
               \/ RerankerFailed)
              => (srch.ranking = "local" /\ IsLocalRanking(srch.ret.sources))

\* a deep search with a key found a single result and ranked it locally
C16_Witness ==
    /\ ReturnedRanking
    /\ srch.deep_mode /\ KeyConfigured
    /\ srch.ret.total_found = 1 /\ srch.jina_calls = 0 /\ Len(srch.ret.sources) = 1
    /\ srch.ranking = "local"

\* W(s): the lower-cased whitespace-separated words of s, each a maximal run of
\* characters that are not whitespace
W(s) ==
    LET l == lower(s)
    IN  { SubSeq(l, i, j) : <<i, j>> \in
            { p \in (1..Len(l)) \X (1..Len(l)) :
                /\ p[1] <= p[2]
                /\ \A k \in p[1]..p[2] : l[k] \notin Whitespace
                /\ p[1] = 1 \/ l[p[1] - 1] \in Whitespace
                /\ p[2] = Len(l) \/ l[p[2] + 1] \in Whitespace } }
ScoredText == IF srch.text.t = "str" THEN srch.text.v ELSE <<>>

\* C17: calculate_text_relevance(query, text) is |W(query) /\ W(text)| / |W(query)|,
\* and 0 when the text is empty or the query has no words; so it lies between 0
\* and 1 and is 1 exactly when every word of the query occurs in the text.
C17_RelevanceIsWordOverlap ==
    srch.op = "relevance" =>
        LET q == W(srch.query.v)
            t == W(ScoredText)
            score == srch.score
        IN  /\ ~srch.raised
            /\ score.den > 0
            /\ (ScoredText = <<>> \/ q = {}) => score.num = 0
            /\ (ScoredText # <<>> /\ q # {})
                  => frac_eq(score, Frac(Cardinality(q \cap t), Cardinality(q)))
            /\ score.num >= 0 /\ score.num <= score.den
            /\ score.num = score.den <=> (q # {} /\ q \subseteq t)

\* every word of a query of several words was found in the text
C17_Witness ==
    /\ srch.op = "relevance"
    /\ Cardinality(W(srch.query.v)) = 2
    /\ Cardinality(W(ScoredText)) = 4
    /\ srch.score = Frac(2, 2)

\* pattern k of the list occurs in s
Occurs(k, s) == \E i \in 1..Len(s) : match_at(replacements[k], s, i) > 0

\* C18: the output of _sanitize_response holds no run of two or more '!' and no
\* occurrence of a listed pattern, plain or masked with '*'; a text that is one
\* such occurrence comes out as the neutral term it is mapped to.
C18_NoProfanityNoEmphasis ==
    dobby.op = "sanitize" =>
        /\ \A i \in 1..(Len(dobby.ret) - 1) : ~(dobby.ret[i] = "!" /\ dobby.ret[i + 1] = "!")
        /\ \A k \in 1..Len(replacements) : ~Occurs(k, dobby.ret)
        /\ \A k \in 1..Len(replacements) :
              (dobby.response # <<>>
                  /\ match_at(replacements[k], dobby.response, 1) = Len(dobby.response))
              => dobby.ret = replacements[k].to

\* a text with a masked word, a removed word and repeated '!' was cleaned
C18_Witness ==
    /\ dobby.op = "sanitize"
    /\ Occurs(1, dobby.response)
    /\ contains(<<"!", "!">>, dobby.response)
    /\ contains(<<"v", "e", "r", "y", "!">>, dobby.ret)

\* the whitespace a line begins with
LeadingWhitespace(line) == SubSeq(line, 1, Len(line) - Len(lstrip(line)))

\* C19: _sanitize_response keeps the lines and their indentation: the output has
\* as many lines as the input, and every line of the input that is not blank
\* begins, in the output, with the same whitespace.
C19_LinesAndIndentationKept ==
    dobby.op = "sanitize" =>
        LET input == split_char(dobby.response, NL)
            output == split_char(dobby.ret, NL)
        IN  /\ Len(output) = Len(input)
            /\ \A i \in 1..Len(input) :
                  strip(input[i]) # <<>>
                  => LeadingWhitespace(output[i]) = LeadingWhitespace(input[i])

\* the request of the generate_response call failed: it raised, or it was
\* answered with a status other than 200
PostFailed == dobby.http.kind # "answer" \/ dobby.http.code # 200
\* the i-th provider request of the search call failed
ProviderFailed(i) == srch.http[i].kind # "json"

\* C20: nothing is retried.  A generate_response call sends at most one HTTP
\* request, also when that request fails; a search call sends one provider
\* request for each query variant in turn, none of them twice, also when one
\* fails, and at most one reranker request.
C20_NoRetries ==
    /\ dobby.op = "generate" =>
          /\ dobby.http_calls \in {0, 1}
          /\ (PostFailed /\ dobby.messages # <<>>) => dobby.http_calls = 1
    /\ srch.op = "search" =>
          /\ srch.serper_calls = Len(srch.serper_queries)
          /\ srch.serper_calls <= 3
          /\ \A i, j \in 1..srch.serper_calls :
                srch.serper_queries[i] = srch.serper_queries[j] => i = j
          /\ ~srch.caught =>
                srch.serper_calls = IF srch.deep_mode THEN Len(rephrase_query(srch.query).value)
                                    ELSE 1
          /\ \A i \in 1..srch.serper_calls :
                ProviderFailed(i) =>
                   Cardinality({j \in 1..srch.serper_calls :
                                   srch.serper_queries[j] = srch.serper_queries[i]}) = 1
          /\ srch.jina_calls \in {0, 1}

\* both calls were made; the chat request timed out, a provider request and the
\* reranker request failed
C20_Witness ==
    /\ dobby.op = "generate" /\ dobby.http.kind = "Timeout" /\ dobby.http_calls = 1
    /\ srch.op = "search" /\ srch.serper_calls = 3 /\ ProviderFailed(2)
    /\ srch.jina_calls = 1 /\ RerankerFailed

\* what a stored plan holds besides the metadata save_business_plan adds
PlanData(d) == [k \in DOMAIN d \ {"plan_id", "created_at", "last_updated", "version"} |-> d[k]]

\* C21: a plan_id names at most one plan: a save_business_plan call made without
\* an explicit plan_id never resolves to the plan_id of the file of a different
\* plan, so it never overwrites that file.
C21_PlanIdNamesOnePlan ==
    [][ (/\ store'.calls = store.calls + 1
         /\ store'.op = "save"
         /\ ~truthy(store'.plan_id)
         /\ store'.ret.v # <<>>
         /\ store'.ret.v \in DOMAIN files
         /\ load_business_plan(files, store'.ret.v) # PyNone)
        => PlanData(load_business_plan(files, store'.ret.v).v) = PlanData(store'.plan) ]_vars

\* both save_business_plan calls have returned
WritersReturned == store.op = "writers" /\ \A w \in Writers : store.pc[w] = "returned"
\* the file holds the plan writer w saved
FileHolds(w) ==
    /\ WriterPlanId \in DOMAIN files
    /\ load_business_plan(files, WriterPlanId) # PyNone
    /\ PlanData(load_business_plan(files, WriterPlanId).v) = PlanData(store.plan[w])

\* C22: persistence has no concurrency guard.  Two save_business_plan calls for
\* the same plan_id that run concurrently both return the plan_id, whatever the
\* interleaving, and the file holds the plan of at most one of them: when the
\* plans differ, the data of a writer that reported success is lost.
C22_ConcurrentWritersBothSucceed ==
    WritersReturned =>
        /\ \A w \in Writers : store.ret[w] = PyStr(WriterPlanId)
        /\ PlanData(store.plan[1]) # PlanData(store.plan[2])
              => \E w \in Writers : ~FileHolds(w)

\* both writers reported success, they ran concurrently, and the file holds the
\* plan of the second writer alone
C22_Witness ==
    /\ WritersReturned
    /\ store.concurrent
    /\ \A w \in Writers : store.ret[w] = PyStr(WriterPlanId)
    /\ store.plan[1] = AcmePlan /\ store.plan[2] = AcmePlan2
    /\ FileHolds(2) /\ ~FileHolds(1)

\* C23: every process_request call appends exactly one entry to the execution
\* log, for its input and stage, also when the solver raises; so after n calls
\* get_roma_status reports execution_count = min(n, 100) and last_execution is
\* the entry of the most recent call.
C23_OneLogEntryPerCall ==
    [][ /\ ProcessRequestLogged =>
             /\ Len(logged') = Len(logged) + 1
             /\ Len(execution_history') =
                   (IF Len(execution_history) < 100 THEN Len(execution_history) + 1 ELSE 100)
             /\ \A i \in 1..(Len(execution_history') - 1) :
                   execution_history'[i]
                      = execution_history[Len(execution_history) + 1
                                             - Len(execution_history') + i]
             /\ execution_history'[Len(execution_history')].task = req'.user_input
             /\ execution_history'[Len(execution_history')].stage = req'.stage
             /\ execution_history'[Len(execution_history')].timestamp = isoformat(now)
             /\ req'.solve_calls = 1
        /\ get_roma_status(execution_history').execution_count
              = (IF Len(logged') < 100 THEN Len(logged') ELSE 100)
        /\ get_roma_status(execution_history').last_execution = logged'[Len(logged')]
      ]_vars

\* more than 100 calls were made and the solver raised in the last one, which
\* is the last entry of the log
C23_Witness ==
    /\ Len(logged) > 100
    /\ req.solve_raises /\ req.raised
    /\ get_roma_status(execution_history).execution_count = 100
    /\ get_roma_status(execution_history).last_execution.task = req.user_input

\* the last message of the chat history
LastMessage(history) == history[Len(history)]

\* C24: a failed submission changes neither stage nor plan: when process_request
\* raises or returns a response whose message is empty, process_user_input
\* leaves current_stage, business_plan and the plan files as they were, whatever
\* next_stage or business_plan_update the response carried, and the chat history
\* ends with an assistant error message.
C24_FailedSubmissionKeepsStageAndPlan ==
    [][ (ProcessRequest /\ (req'.raised \/ req'.response.message = <<>>)) =>
            /\ current_stage' = current_stage
            /\ business_plan' = business_plan
            /\ files' = files
            /\ LastMessage(chat_history').role = "assistant"
            /\ IsPrefix(ErrorPrefix, LastMessage(chat_history').content)
      ]_vars

\* the response had an empty message and a next_stage, and the stage was kept;
\* the chat history ends with the error message
C24_Witness ==
    /\ req.returned
    /\ req.response.message = <<>>
    /\ req.response.next_stage \notin {None, current_stage}
    /\ current_stage = req.stage
    /\ LastMessage(chat_history) = Message("assistant", EmptyResponse)

\* C25: the session chat history is append-only: after a process_user_input call
\* the history before it is the first part of the history after it, and the call
\* has added exactly one assistant message, on the success path and on every
\* error path.
C25_ChatHistoryAppendOnly ==
    [][ ProcessUserInput =>
            /\ IsPrefix(chat_history, chat_history')
            /\ Cardinality({i \in (Len(chat_history) + 1)..Len(chat_history') :
                               chat_history'[i].role = "assistant"}) = 1
      ]_vars

\* a session with an answered submission, one with an empty answer and one in
\* which the solver raised
C25_Witness ==
    /\ Len(logged) >= 3
    /\ req.raised
    /\ \E i \in 1..Len(chat_history) : chat_history[i] = Message("assistant", EmptyResponse)
    /\ \E i \in 1..Len(chat_history) : chat_history[i] = Message("assistant", AnswerResearch)

\* user and assistant messages alternate in history, a user message first
Alternates(history) ==
    \A i \in 1..Len(history) : history[i].role = (IF i % 2 = 1 THEN "user" ELSE "assistant")

\* C26: in every session state the chat history alternates user and assistant
\* messages, starting with a user message, so that every submitted prompt is in
\* the history, and in the chat history file saved after the submission.
C26_ChatAlternates ==
    /\ Alternates(chat_history)
    /\ Len(chat_history) = 2 * Len(logged)
    /\ \A id \in DOMAIN chat_files : Alternates(chat_files[id].chat_history)

\* the completion flags and the stage at which each is set
FlagStage == [has_market_research |-> "research", has_business_plan |-> "planning",
              has_financial_projections |-> "costing", has_launch_plan |-> "launch"]

\* every flag in plan belongs to a stage the session has reached
FlagsReached(plan, stage) ==
    \A f \in DOMAIN FlagStage \cap DOMAIN plan :
        StageNumber(stage) >= StageNumber(FlagStage[f])

\* C27: a submission adds a completion flag to the plan only when the stage it
\* was made at is the flag's stage, and removes none; so a flag in the plan of a
\* session means the current stage is at or after the flag's stage, and the plan
\* of a session at stage idea has no flag.
C27_FlagsFollowStage ==
    /\ [](FlagsReached(business_plan, current_stage))
    /\ [][ /\ \A f \in DOMAIN FlagStage \cap DOMAIN business_plan :
                f \in DOMAIN business_plan'
           /\ \A f \in (DOMAIN FlagStage \cap DOMAIN business_plan') \ DOMAIN business_plan :
                /\ current_stage = FlagStage[f]
                /\ req'.stage = FlagStage[f]
         ]_vars

\* a session that has moved past research with the research flag in its plan,
\* and has set the flag of a later stage too
C27_Witness ==
    /\ "has_market_research" \in DOMAIN business_plan
    /\ "has_business_plan" \in DOMAIN business_plan
    /\ StageNumber(current_stage) > StageNumber("planning")

\* how often x occurs in seq
Count(seq, x) == Cardinality({i \in 1..Len(seq) : seq[i] = x})
\* b holds the elements of a, each as often as a does
IsPermutation(a, b) ==
    /\ Len(a) = Len(b)
    /\ \A i \in 1..Len(a) : Count(a, a[i]) = Count(b, a[i])
\* the ranking step returned its candidates in some order, scores aside
RankingIsPermutation == IsPermutation(Unscored(srch.candidates), Unscored(srch.ranked))

\* C28 as stated: the list the ranking step of search returns is a permutation of
\* the candidate list it was given, no candidate dropped and none twice, for
\* every reranker response.
C28_RankingOnlyReorders == srch.was_ranked => RankingIsPermutation

\* the candidate positions (from 0) the reranker's items name, for the items
\* whose index is below the number of candidates; a negative index counts from
\* the end
NamedPositions ==
    LET items == srch.jina.body.v["results"].v
        n == Len(srch.candidates)
        index(i) == dict_get(items[i].v, "index", PyInt(0)).v
        kept == {i \in 1..Len(items) : index(i) < n}
    IN  [i \in kept |-> IF index(i) >= 0 THEN index(i) ELSE index(i) + n]
\* the reranker's response names every candidate once
NamesEachOnce ==
    \A k \in 0..(Len(srch.candidates) - 1) :
        Cardinality({i \in DOMAIN NamedPositions : NamedPositions[i] = k}) = 1

\* C28, amended: every entry of the list the ranking step returns is one of the
\* candidates; the list is a permutation of the candidates when it comes from
\* apply_semantic_ranking, directly or as the fallback of apply_jina_reranking;
\* when it comes from the reranker's response it holds one candidate for each
\* item of the response whose index is below the number of candidates, and is a
\* permutation when the response names every candidate once.
C28_RankingReturnsCandidates ==
    srch.was_ranked =>
        /\ \A i \in 1..Len(srch.ranked) :
              Count(Unscored(srch.candidates), Unscored(srch.ranked)[i]) >= 1
        /\ srch.ranking = "local" => RankingIsPermutation
        /\ srch.ranking = "jina" =>
              /\ Len(srch.ranked) = Cardinality(DOMAIN NamedPositions)
              /\ \A i \in DOMAIN NamedPositions :
                    Count(Unscored(srch.ranked),
                          Unscored(srch.candidates)[NamedPositions[i] + 1]) >= 1
              /\ NamesEachOnce => RankingIsPermutation

\* the reranker named both candidates once and its ranking, returned by search,
\* puts the second candidate first
C28_Witness ==
    /\ srch.was_ranked /\ srch.ranking = "jina" /\ NamesEachOnce
    /\ Len(srch.candidates) = 2
    /\ srch.candidates[1] # srch.candidates[2]
    /\ Unscored(srch.ranked) = Unscored(<<srch.candidates[2], srch.candidates[1]>>)
    /\ "sources" \in DOMAIN srch.ret

\* C29 as stated: a search call that returns sources returns at most num_results
\* of them, ordered by non-increasing relevance_score, whether the scores came
\* from the hosted reranker or from local scoring.
C29_SourcesSortedAndCapped ==
    ReturnedRanking =>
        /\ Len(srch.ret.sources) <= srch.num_results
        /\ Descending(srch.ret.sources)

\* C29, amended: a search call that returns sources returns the first
\* num_results entries of its ranking, at most num_results of them; they are
\* ordered by non-increasing relevance_score when the scores came from the
\* hosted reranker or local scoring ran to its end, and are in the order the
\* provider gave them when local scoring raised.
C29_SourcesCappedSortedUnlessScoringRaised ==
    ReturnedRanking =>
        /\ Len(srch.ret.sources) <= srch.num_results
        /\ Len(srch.ret.sources) <= Len(srch.ranked)
        /\ srch.ret.sources = SubSeq(srch.ranked, 1, Len(srch.ret.sources))
        /\ Len(srch.ret.sources) < srch.num_results => srch.ret.sources = srch.ranked
        /\ IF srch.ranking = "local" /\ ScoringRaises
           THEN InOriginalOrder(srch.ranked)
           ELSE Descending(srch.ranked)

\* three candidates were scored locally and the one source returned is the one
\* with the highest score, which the provider had not given first
C29_Witness ==
    /\ ReturnedRanking /\ srch.ranking = "local" /\ ~ScoringRaises
    /\ srch.num_results = 1 /\ Len(srch.ret.sources) = 1 /\ Len(srch.ranked) = 3
    /\ Unscored(srch.ret.sources)[1] # Unscored(srch.candidates)[1]
    /\ ~frac_ge(srch.ranked[3].relevance_score, srch.ret.sources[1].relevance_score)

\* default_temperature is in [0, 2] and max_tokens in [100, 8192]
SettingsInRange(cfg) ==
    /\ cfg.default_temperature.den > 0
    /\ 0 <= cfg.default_temperature.num
    /\ cfg.default_temperature.num <= 2 * cfg.default_temperature.den
    /\ 100 <= cfg.max_tokens /\ cfg.max_tokens <= 8192
\* the call was given a temperature that float() turns into a number outside
\* [0, 2], or a max_tokens that int() turns into a number outside [100, 8192]
TemperatureOutOfRange(kwargs) ==
    /\ "temperature" \in DOMAIN kwargs
    /\ ~py_float(kwargs.temperature).raised
    /\ LET temp == py_float(kwargs.temperature).value
       IN  temp.den = 0 \/ temp.num < 0 \/ temp.num > 2 * temp.den
MaxTokensOutOfRange(kwargs) ==
    /\ "max_tokens" \in DOMAIN kwargs
    /\ ~py_int(kwargs.max_tokens).raised
    /\ LET tokens == py_int(kwargs.max_tokens).value IN tokens < 100 \/ tokens > 8192

====
